---------------------------- MODULE Spec2Model ----------------------------
(***************************************************************************)
(* Mandelbrot visualizer: coordinate transforms, escape-time kernel, grid  *)
(* evaluator, colour mapper and the GUI's view/zoom manager.               *)
(*                                                                         *)
(* A Python float is held in one of two forms.                             *)
(*                                                                         *)
(* <<numerator, denominator>>: an exact rational in lowest terms with a    *)
(* positive denominator.  The inputs the specifications draw in this form  *)
(* are dyadic rationals of a few bits wherever the source squares or       *)
(* compares them, so that every double operation of the source is exact on *)
(* them and the rational result is the double result.                      *)
(*                                                                         *)
(* <<negative, bits, "f64">>: an IEEE 754 binary64 value, its magnitude    *)
(* the sum of 2^i over the bit positions i in bits.  Every operation       *)
(* rounds its exact result to float_mant_dig significant bits, ties to     *)
(* even.  The exponent range is not bounded: no specification comes near   *)
(* overflow or the subnormals.  An operation with one operand in this form *)
(* converts the other to it.                                               *)
(***************************************************************************)
EXTENDS Integers, Sequences, FiniteSets, TLC

(***************************************************************************)
(* Float arithmetic on rationals                                           *)
(***************************************************************************)
Abs(n) == IF n < 0 THEN -n ELSE n

RECURSIVE GCD(_, _)
GCD(a, b) == IF b = 0 THEN a ELSE GCD(b, a % b)

\* the float n/d
Frac(n, d) ==
    LET s == IF d < 0 THEN -1 ELSE 1
        g == GCD(Abs(n), Abs(d))
    IN  <<(s * n) \div g, (s * d) \div g>>

FromInt(n) == <<n, 1>>

LCM(a, b) == (a \div GCD(a, b)) * b

QAdd(a, b) ==
    LET l == LCM(a[2], b[2])
    IN  Frac(a[1] * (l \div a[2]) + b[1] * (l \div b[2]), l)

QMul(a, b) ==
    LET g1 == GCD(Abs(a[1]), b[2])
        g2 == GCD(Abs(b[1]), a[2])
    IN  Frac((a[1] \div g1) * (b[1] \div g2), (a[2] \div g2) * (b[2] \div g1))

QLess(a, b) ==
    LET l == LCM(a[2], b[2])
    IN  a[1] * (l \div a[2]) < b[1] * (l \div b[2])

(***************************************************************************)
(* Float arithmetic on binary64 values                                     *)
(***************************************************************************)
\* sys.float_info.mant_dig
float_mant_dig == 53

\* magnitudes: sets of bit positions
BShift(S, k) == { i + k : i \in S }

BMaxBit(S) == CHOOSE i \in S : \A j \in S : j <= i

BLess(A, B) ==
    LET D == (A \ B) \cup (B \ A)
    IN  D # {} /\ BMaxBit(D) \in B

BMinBit(S) == CHOOSE i \in S : \A j \in S : i <= j

\* the positions that send a carry (a borrow) up: those in G, and those in
\* P that receive one; carries travel d positions at a time, d doubling
RECURSIVE BCarry(_, _, _)
BCarry(G, P, d) ==
    IF G = {} \/ P = {} THEN G
    ELSE BCarry(G \cup (P \cap BShift(G, d)), P \cap BShift(P, d), 2 * d)

\* the positions in exactly one of A and B: the sum without its carries
BXor(A, B) == (A \cup B) \ (A \cap B)

\* every position from the lowest to the highest of S
BSpan(S) == BMinBit(S)..BMaxBit(S)

BAdd(A, B) ==
    BXor(BXor(A, B), BShift(BCarry(A \cap B, BXor(A, B), 1), 1))

\* A - B for A >= B: a borrow travels through the positions where A and B
\* agree
BSub(A, B) ==
    IF B = {} THEN A
    ELSE BXor(BXor(A, B),
              BShift(BCarry(B \ A, BSpan(A \cup B) \ BXor(A, B), 1), 1))

\* A * B for magnitudes of fewer than 64 positions each: count[p] pairs of
\* positions add up to p, and the product is the sum over k of the
\* positions whose count has binary digit k, shifted by k
BMul(A, B) ==
    IF A = {} \/ B = {} THEN {}
    ELSE LET columns == (BMinBit(A) + BMinBit(B))..(BMaxBit(A) + BMaxBit(B))
             count == [p \in columns |-> Cardinality({ i \in A : (p - i) \in B })]
             digit(k) == { p + k : p \in { q \in columns : (count[q] \div (2 ^ k)) % 2 = 1 } }
         IN  BAdd(BAdd(digit(0), digit(1)),
                  BAdd(BAdd(digit(2), digit(3)), BAdd(digit(4), digit(5))))

\* long division: <<remainder, quotient bits>> after the quotient bits
\* q, q - 1, .. qmin of R / B
RECURSIVE BDivLoop(_, _, _, _, _)
BDivLoop(R, B, q, qmin, Q) ==
    IF q < qmin THEN <<R, Q>>
    ELSE LET T == BShift(B, q)
         IN  IF BLess(R, T) THEN BDivLoop(R, B, q - 1, qmin, Q)
             ELSE BDivLoop(BSub(R, T), B, q - 1, qmin, Q \cup {q})

\* the same, eight quotient bits at a time, until the remainder is zero
RECURSIVE BDivChunks(_, _, _, _)
BDivChunks(RQ, B, q, qmin) ==
    IF q < qmin \/ RQ[1] = {} THEN RQ
    ELSE LET low == IF q - 7 < qmin THEN qmin ELSE q - 7
         IN  BDivChunks(BDivLoop(RQ[1], B, q, low, RQ[2]), B, low - 1, qmin)

\* the quotient bits of RQ, and position k when a remainder is left
BSticky(RQ, k) == IF RQ[1] = {} THEN RQ[2] ELSE RQ[2] \cup {k}

\* A / B for B # {}, to more bits than a float keeps, and below them one
\* more bit that stands for a remainder; a shift when B is a power of two
BDiv(A, B) ==
    IF A = {} THEN {}
    ELSE IF B = {BMaxBit(B)} THEN BShift(A, -BMaxBit(B))
    ELSE LET q == BMaxBit(A) - BMaxBit(B)
             qmin == q - float_mant_dig - 3
         IN  BSticky(BDivChunks(<<A, {}>>, B, q, qmin), qmin - 2)

\* round to nearest, ties to even, at float_mant_dig significant bits
BRound(S) ==
    IF S = {} THEN {}
    ELSE LET low == BMaxBit(S) - (float_mant_dig - 1)
             kept == { i \in S : i >= low }
             rest == { i \in S : i < low }
             up == (low - 1) \in rest /\ (rest # {low - 1} \/ low \in S)
         IN  IF up THEN BAdd(kept, {low}) ELSE kept

\* the bits of a natural number below 2^31
IntBits(n) == { i \in 0..30 : (n \div (2 ^ i)) % 2 = 1 }

F64(negative, bits) == <<negative /\ bits # {}, bits, "f64">>

IsF64(a) == Len(a) = 3

\* float(n / d) of a rational
ToF64(a) ==
    IF IsF64(a) THEN a
    ELSE F64(a[1] < 0, BRound(BDiv(IntBits(Abs(a[1])), IntBits(a[2]))))

\* 2.0 ** k
TwoTo(k) == F64(FALSE, {k})

DAdd(a, b) ==
    IF a[1] = b[1] THEN F64(a[1], BRound(BAdd(a[2], b[2])))
    ELSE IF BLess(a[2], b[2]) THEN F64(b[1], BRound(BSub(b[2], a[2])))
    ELSE F64(a[1], BRound(BSub(a[2], b[2])))

DMul(a, b) == F64(a[1] # b[1], BRound(BMul(a[2], b[2])))

\* a / b, b nonzero
DDiv(a, b) == F64(a[1] # b[1], BRound(BDiv(a[2], b[2])))

DLess(a, b) ==
    IF a[1] /\ ~b[1] THEN TRUE
    ELSE IF ~a[1] /\ b[1] THEN FALSE
    ELSE IF a[1] THEN BLess(b[2], a[2])
    ELSE BLess(a[2], b[2])

(***************************************************************************)
(* Float arithmetic on either form                                         *)
(***************************************************************************)
FAdd(a, b) ==
    IF IsF64(a) \/ IsF64(b) THEN DAdd(ToF64(a), ToF64(b)) ELSE QAdd(a, b)

FNeg(a) == IF IsF64(a) THEN F64(~a[1], a[2]) ELSE <<-a[1], a[2]>>

FSub(a, b) == FAdd(a, FNeg(b))

FMul(a, b) ==
    IF IsF64(a) \/ IsF64(b) THEN DMul(ToF64(a), ToF64(b)) ELSE QMul(a, b)

\* a / b, b nonzero
FDiv(a, b) ==
    IF IsF64(a) \/ IsF64(b) THEN DDiv(ToF64(a), ToF64(b))
    ELSE QMul(a, Frac(b[2], b[1]))

FLess(a, b) ==
    IF IsF64(a) \/ IsF64(b) THEN DLess(ToF64(a), ToF64(b)) ELSE QLess(a, b)

FMin(a, b) == IF FLess(b, a) THEN b ELSE a

FMax(a, b) == IF FLess(a, b) THEN b ELSE a

FAbs(a) == IF IsF64(a) THEN F64(FALSE, a[2]) ELSE <<Abs(a[1]), a[2]>>

\* the integer whose binary digits are the positions in S
RECURSIVE BitsInt(_)
BitsInt(S) ==
    IF S = {} THEN 0
    ELSE LET m == BMaxBit(S) IN 2 ^ m + BitsInt(S \ {m})

\* int(x): truncation toward zero
Trunc(a) ==
    IF IsF64(a)
    THEN LET whole == BitsInt({ i \in a[2] : i >= 0 })
         IN  IF a[1] THEN -whole ELSE whole
    ELSE IF a[1] >= 0 THEN a[1] \div a[2] ELSE -((-a[1]) \div a[2])

\* round(x): Python 3 rounds to nearest, ties to the even integer
Round(a) ==
    IF IsF64(a)
    THEN LET whole == BitsInt({ i \in a[2] : i >= 0 })
             below == { i \in a[2] : i < -1 }
             up == (-1) \in a[2] /\ (below # {} \/ 0 \in a[2])
             nearest == IF up THEN whole + 1 ELSE whole
         IN  IF a[1] THEN -nearest ELSE nearest
    ELSE LET f == a[1] \div a[2]
             r == a[1] % a[2]
         IN  IF 2 * r < a[2] THEN f
             ELSE IF 2 * r > a[2] THEN f + 1
             ELSE IF f % 2 = 0 THEN f ELSE f + 1

IMin(a, b) == IF b < a THEN b ELSE a

IMax(a, b) == IF a < b THEN b ELSE a

Half == Frac(1, 2)

\* complex(re, im)
Complex(re, im) == [real |-> re, imag |-> im]

(***************************************************************************)
(* coordinate_transforms.py                                                *)
(***************************************************************************)
\* pixel_to_complex without the flip of the y axis
pixel_to_complex_unflipped(pixel_x, pixel_y, width, height, x_min, x_max, y_min, y_max) ==
    LET norm_x == IF width > 1 THEN Frac(pixel_x, width - 1) ELSE Half
        norm_y == IF height > 1 THEN Frac(pixel_y, height - 1) ELSE Half
        real_part == FAdd(x_min, FMul(norm_x, FSub(x_max, x_min)))
        imag_part == FAdd(y_min, FMul(norm_y, FSub(y_max, y_min)))
    IN  Complex(real_part, imag_part)

pixel_to_complex(pixel_x, pixel_y, width, height, x_min, x_max, y_min, y_max) ==
    LET norm_x == IF width > 1 THEN Frac(pixel_x, width - 1) ELSE Half
        norm_y == IF height > 1 THEN Frac(pixel_y, height - 1) ELSE Half
        real_part == FAdd(x_min, FMul(norm_x, FSub(x_max, x_min)))
        imag_part == FSub(y_max, FMul(norm_y, FSub(y_max, y_min)))
    IN  Complex(real_part, imag_part)

\* complex_to_pixel without the flip of the y axis
complex_to_pixel_unflipped(complex_point, width, height, x_min, x_max, y_min, y_max) ==
    LET norm_x == IF x_max # x_min
                  THEN FDiv(FSub(complex_point.real, x_min), FSub(x_max, x_min))
                  ELSE Half
        norm_y == IF y_max # y_min
                  THEN FDiv(FSub(complex_point.imag, y_min), FSub(y_max, y_min))
                  ELSE Half
        pixel_x == IF width > 1 THEN Round(FMul(norm_x, FromInt(width - 1))) ELSE 0
        pixel_y == IF height > 1 THEN Round(FMul(norm_y, FromInt(height - 1))) ELSE 0
    IN  <<IMax(0, IMin(width - 1, pixel_x)), IMax(0, IMin(height - 1, pixel_y))>>

\* complex_to_pixel without the clamp
complex_to_pixel_unclamped(complex_point, width, height, x_min, x_max, y_min, y_max) ==
    LET norm_x == IF x_max # x_min
                  THEN FDiv(FSub(complex_point.real, x_min), FSub(x_max, x_min))
                  ELSE Half
        norm_y == IF y_max # y_min
                  THEN FDiv(FSub(y_max, complex_point.imag), FSub(y_max, y_min))
                  ELSE Half
        pixel_x == IF width > 1 THEN Round(FMul(norm_x, FromInt(width - 1))) ELSE 0
        pixel_y == IF height > 1 THEN Round(FMul(norm_y, FromInt(height - 1))) ELSE 0
    IN  <<pixel_x, pixel_y>>

complex_to_pixel(complex_point, width, height, x_min, x_max, y_min, y_max) ==
    LET norm_x == IF x_max # x_min
                  THEN FDiv(FSub(complex_point.real, x_min), FSub(x_max, x_min))
                  ELSE Half
        norm_y == IF y_max # y_min
                  THEN FDiv(FSub(y_max, complex_point.imag), FSub(y_max, y_min))
                  ELSE Half
        pixel_x == IF width > 1 THEN Round(FMul(norm_x, FromInt(width - 1))) ELSE 0
        pixel_y == IF height > 1 THEN Round(FMul(norm_y, FromInt(height - 1))) ELSE 0
    IN  <<IMax(0, IMin(width - 1, pixel_x)), IMax(0, IMin(height - 1, pixel_y))>>

ViewBounds(x_min, x_max, y_min, y_max, width, height) ==
    [x_min |-> x_min, x_max |-> x_max, y_min |-> y_min, y_max |-> y_max,
     width |-> width, height |-> height]

complex_width(vb) == FSub(vb.x_max, vb.x_min)

complex_height(vb) == FSub(vb.y_max, vb.y_min)

center(vb) ==
    Complex(FDiv(FAdd(vb.x_min, vb.x_max), FromInt(2)),
            FDiv(FAdd(vb.y_min, vb.y_max), FromInt(2)))

VB_pixel_to_complex(vb, pixel_x, pixel_y) ==
    pixel_to_complex(pixel_x, pixel_y, vb.width, vb.height,
                     vb.x_min, vb.x_max, vb.y_min, vb.y_max)

VB_complex_to_pixel(vb, complex_point) ==
    complex_to_pixel(complex_point, vb.width, vb.height,
                     vb.x_min, vb.x_max, vb.y_min, vb.y_max)

\* zoom_to_region trusting the corners to come in order
zoom_to_region_unordered(vb, top_left, bottom_right) ==
    LET top_left_complex == VB_pixel_to_complex(vb, top_left[1], top_left[2])
        bottom_right_complex == VB_pixel_to_complex(vb, bottom_right[1], bottom_right[2])
    IN  ViewBounds(top_left_complex.real, bottom_right_complex.real,
                   bottom_right_complex.imag, top_left_complex.imag,
                   vb.width, vb.height)

zoom_to_region(vb, top_left, bottom_right) ==
    LET top_left_complex == VB_pixel_to_complex(vb, top_left[1], top_left[2])
        bottom_right_complex == VB_pixel_to_complex(vb, bottom_right[1], bottom_right[2])
        new_x_min == FMin(top_left_complex.real, bottom_right_complex.real)
        new_x_max == FMax(top_left_complex.real, bottom_right_complex.real)
        new_y_min == FMin(top_left_complex.imag, bottom_right_complex.imag)
        new_y_max == FMax(top_left_complex.imag, bottom_right_complex.imag)
    IN  ViewBounds(new_x_min, new_x_max, new_y_min, new_y_max, vb.width, vb.height)

(***************************************************************************)
(* mandelbrot_core.py                                                      *)
(***************************************************************************)
CZero == Complex(FromInt(0), FromInt(0))

\* z * z + c on Python complex numbers
CSquarePlus(z, c) ==
    Complex(FAdd(FSub(FMul(z.real, z.real), FMul(z.imag, z.imag)), c.real),
            FAdd(FMul(FromInt(2), FMul(z.real, z.imag)), c.imag))

\* abs(z) >= 2.0
EscapedAtRadius(z) ==
    ~FLess(FAdd(FMul(z.real, z.real), FMul(z.imag, z.imag)), FromInt(4))

\* abs(z) > 2.0
Escaped(z) ==
    FLess(FromInt(4), FAdd(FMul(z.real, z.real), FMul(z.imag, z.imag)))

\* the loop of _mandelbrot_iterations_fast from iteration i on
RECURSIVE fast_loop(_, _, _, _)
fast_loop(c, max_iter, i, z) ==
    IF i > max_iter THEN max_iter
    ELSE IF Escaped(z) THEN i - 1
    ELSE fast_loop(c, max_iter, i + 1, CSquarePlus(z, c))

\* the loop run over range(1, max_iter)
_mandelbrot_iterations_fast_short(c, max_iter) ==
    IF max_iter >= 1 THEN fast_loop(c, max_iter - 1, 1, CZero) ELSE 0

\* the loop run over range(0, max_iter + 1)
_mandelbrot_iterations_fast_from_zero(c, max_iter) == fast_loop(c, max_iter, 0, CZero)

_mandelbrot_iterations_fast(c, max_iter) == fast_loop(c, max_iter, 1, CZero)

\* the positional parameters of mandelbrot_array
mandelbrot_array_params ==
    <<"width", "height", "x_min", "x_max", "y_min", "y_max", "max_iter">>

\* Python's argument binding for a call of mandelbrot_array with npos
\* positional arguments and the keyword arguments kw
BindsOk(npos, kw) ==
    /\ npos <= Len(mandelbrot_array_params)
    /\ \A k \in kw : \E j \in (npos + 1)..Len(mandelbrot_array_params) :
                        mandelbrot_array_params[j] = k
    /\ \A j \in (npos + 1)..Len(mandelbrot_array_params) :
            mandelbrot_array_params[j] \in kw

x_step(a) == FDiv(FSub(a.x_max, a.x_min), FromInt(a.width))

y_step(a) == FDiv(FSub(a.y_max, a.y_min), FromInt(a.height))

\* the point _mandelbrot_kernel evaluates for pixel (row, col)
KernelPoint(a, row, col) ==
    Complex(FAdd(a.x_min, FMul(FromInt(col), x_step(a))),
            FSub(a.y_max, FMul(FromInt(row), y_step(a))))

\* np.zeros((height, width))
Zeros(height, width) == [p \in (0..(height - 1)) \X (0..(width - 1)) |-> 0]

(***************************************************************************)
(* color_mapping.py                                                        *)
(***************************************************************************)
_PALETTES == {"default", "hot", "cool", "grayscale", "rainbow"}

\* int(100 + factor * 155) and the like: int(base + factor * scale)
Chan(base, factor, scale) ==
    Trunc(FAdd(FromInt(base), FMul(factor, FromInt(scale))))

_default_palette(t) ==
    IF FLess(t, Frac(1, 4)) THEN
        LET factor == FDiv(t, Frac(1, 4))
        IN  <<Chan(0, factor, 0), Chan(0, factor, 50), Chan(100, factor, 155)>>
    ELSE IF FLess(t, Frac(1, 2)) THEN
        LET factor == FDiv(FSub(t, Frac(1, 4)), Frac(1, 4))
        IN  <<Chan(0, factor, 0), Chan(50, factor, 205), 255>>
    ELSE IF FLess(t, Frac(3, 4)) THEN
        LET factor == FDiv(FSub(t, Frac(1, 2)), Frac(1, 4))
        IN  <<Chan(0, factor, 255), 255, Chan(255, factor, -255)>>
    ELSE
        LET factor == FDiv(FSub(t, Frac(3, 4)), Frac(1, 4))
        IN  <<255, Chan(255, factor, -100), Chan(0, factor, 50)>>

_hot_palette(t) ==
    IF FLess(t, Frac(33, 100)) THEN
        LET factor == FDiv(t, Frac(33, 100))
        IN  <<Chan(0, factor, 255), 0, 0>>
    ELSE IF FLess(t, Frac(66, 100)) THEN
        LET factor == FDiv(FSub(t, Frac(33, 100)), Frac(33, 100))
        IN  <<255, Chan(0, factor, 255), 0>>
    ELSE
        LET factor == FDiv(FSub(t, Frac(66, 100)), Frac(34, 100))
        IN  <<255, 255, Chan(0, factor, 255)>>

\* _cool_palette with the falling blue ramp rising: int(255 + factor * 255)
_cool_palette_rising(t) ==
    IF FLess(t, Frac(1, 2)) THEN
        LET factor == FDiv(t, Frac(1, 2))
        IN  <<0, Chan(0, factor, 255), Chan(100, factor, 155)>>
    ELSE
        LET factor == FDiv(FSub(t, Frac(1, 2)), Frac(1, 2))
        IN  <<0, 255, Chan(255, factor, 255)>>

_cool_palette(t) ==
    IF FLess(t, Frac(1, 2)) THEN
        LET factor == FDiv(t, Frac(1, 2))
        IN  <<0, Chan(0, factor, 255), Chan(100, factor, 155)>>
    ELSE
        LET factor == FDiv(FSub(t, Frac(1, 2)), Frac(1, 2))
        IN  <<0, 255, Chan(255, factor, -255)>>

_grayscale_palette(t) ==
    LET value == Trunc(FMul(t, FromInt(255)))
    IN  <<value, value, value>>

\* h % 2 on a float
FMod2(h) == FSub(h, FromInt(2 * ((h[1] \div h[2]) \div 2)))

_rainbow_palette(t) ==
    LET hue == FMul(t, FromInt(360))
        h == FDiv(hue, FromInt(60))
        c == FromInt(1)
        x == FMul(c, FSub(FromInt(1), FAbs(FSub(FMod2(h), FromInt(1)))))
        m == FromInt(0)
        zero == FromInt(0)
        prime == IF ~FLess(h, FromInt(0)) /\ FLess(h, FromInt(1)) THEN <<c, x, zero>>
                 ELSE IF ~FLess(h, FromInt(1)) /\ FLess(h, FromInt(2)) THEN <<x, c, zero>>
                 ELSE IF ~FLess(h, FromInt(2)) /\ FLess(h, FromInt(3)) THEN <<zero, c, x>>
                 ELSE IF ~FLess(h, FromInt(3)) /\ FLess(h, FromInt(4)) THEN <<zero, x, c>>
                 ELSE IF ~FLess(h, FromInt(4)) /\ FLess(h, FromInt(5)) THEN <<x, zero, c>>
                 ELSE <<c, zero, x>>
    IN  <<Trunc(FMul(FAdd(prime[1], m), FromInt(255))),
          Trunc(FMul(FAdd(prime[2], m), FromInt(255))),
          Trunc(FMul(FAdd(prime[3], m), FromInt(255)))>>

\* list(_PALETTES.keys())
get_available_palettes == <<"default", "hot", "cool", "grayscale", "rainbow">>

\* ValueError(f"Unknown palette '{palette}'. Available: {available}")
ValueError(palette) ==
    [tag |-> "ValueError", palette |-> palette, available |-> get_available_palettes]

Rgb(v) == [tag |-> "rgb", rgb |-> v]

\* the palette dispatch of iterations_to_rgb and _apply_palette_direct
PaletteColor(t, palette) ==
    IF palette = "default" THEN _default_palette(t)
    ELSE IF palette = "hot" THEN _hot_palette(t)
    ELSE IF palette = "cool" THEN _cool_palette(t)
    ELSE IF palette = "grayscale" THEN _grayscale_palette(t)
    ELSE IF palette = "rainbow" THEN _rainbow_palette(t)
    ELSE _default_palette(t)

\* iterations_to_rgb without the membership check: unknown names fall
\* through to the default palette
iterations_to_rgb_unchecked(iterations, max_iter, palette) ==
    IF iterations >= max_iter THEN Rgb(<<0, 0, 0>>)
    ELSE Rgb(PaletteColor(Frac(iterations, max_iter), palette))

\* iterations_to_rgb normalising by a fixed 1000 instead of max_iter
iterations_to_rgb_static(iterations, max_iter, palette) ==
    IF palette \notin _PALETTES THEN ValueError(palette)
    ELSE IF iterations >= max_iter THEN Rgb(<<0, 0, 0>>)
    ELSE Rgb(PaletteColor(Frac(iterations, 1000), palette))

iterations_to_rgb(iterations, max_iter, palette) ==
    IF palette \notin _PALETTES THEN ValueError(palette)
    ELSE IF iterations >= max_iter THEN Rgb(<<0, 0, 0>>)
    ELSE Rgb(PaletteColor(Frac(iterations, max_iter), palette))

\* _apply_palette_direct without the palette dispatch
_apply_palette_direct_default_only(iterations, max_iter, palette) ==
    IF iterations >= max_iter THEN <<0, 0, 0>>
    ELSE LET t == Frac(iterations, max_iter)
         IN  _default_palette(t)

\* _apply_palette_direct with black only above max_iter: a count equal to
\* max_iter is coloured at t = 1
_apply_palette_direct_above_only(iterations, max_iter, palette) ==
    IF iterations > max_iter \/ max_iter = 0 THEN <<0, 0, 0>>
    ELSE PaletteColor(Frac(iterations, max_iter), palette)

_apply_palette_direct(iterations, max_iter, palette) ==
    IF iterations >= max_iter THEN <<0, 0, 0>>
    ELSE PaletteColor(Frac(iterations, max_iter), palette)

\* a store into the np.uint8 image
U8(v) == v % 256

StoreRgb(rgb) == <<U8(rgb[1]), U8(rgb[2]), U8(rgb[3])>>

(***************************************************************************)
(* State                                                                   *)
(***************************************************************************)
VARIABLES
    \* MandelbrotGUI
    image_width, image_height, view_bounds, calculating, zoom_history,
    selection_active, selection_start, selection_end,
    \* the handler that ran last, the bounds it found, whether its
    \* _save_to_history dropped the oldest entry
    last_op, pre_bounds, evicted,
    \* MandelbrotGUI's parameters, and its calculation thread: where it is,
    \* which of the two thread bodies it runs, the arguments it has read for
    \* mandelbrot_array and for iterations_to_rgb_array, the views that were
    \* current while it read, the arguments its grid was evaluated with
    max_iterations, current_palette,
    th_pc, th_kind, th_preview, th_args, th_color, th_views, th_grid,
    \* one run of mandelbrot_iterations
    s_c, s_max_iter, s_i, s_z, s_pc, s_ret,
    \* one call of mandelbrot_array
    k_args, k_npos, k_kw, k_pc, k_row, k_col, k_result, k_outcome,
    \* one call of iterations_to_rgb_array
    c_iterations, c_max_iter, c_palette, c_pc, c_row, c_col, c_rgb_image,
    c_raised,
    \* two calls of iterations_to_rgb on one count and one palette
    r_iterations, r_palette, r_max_iter_a, r_max_iter_b, r_pc, r_rgb_a, r_rgb_b,
    \* one use of the coordinate transforms
    t_vb, t_a, t_b, t_pc, t_complex, t_back, t_zoom_ab, t_zoom_ba

gui_vars == <<image_width, image_height, view_bounds, calculating, zoom_history,
              selection_active, selection_start, selection_end,
              last_op, pre_bounds, evicted>>

render_vars == <<max_iterations, current_palette,
                 th_pc, th_kind, th_preview, th_args, th_color, th_views, th_grid>>

scalar_vars == <<s_c, s_max_iter, s_i, s_z, s_pc, s_ret>>

kernel_vars == <<k_args, k_npos, k_kw, k_pc, k_row, k_col, k_result, k_outcome>>

color_vars == <<c_iterations, c_max_iter, c_palette, c_pc, c_row, c_col, c_rgb_image,
                c_raised>>

rgb_vars == <<r_iterations, r_palette, r_max_iter_a, r_max_iter_b, r_pc,
              r_rgb_a, r_rgb_b>>

coord_vars == <<t_vb, t_a, t_b, t_pc, t_complex, t_back, t_zoom_ab, t_zoom_ba>>

vars == <<gui_vars, render_vars, scalar_vars, kernel_vars, color_vars, rgb_vars, coord_vars>>

\* what each specification leaves alone
CoordOthers == <<gui_vars, render_vars, scalar_vars, kernel_vars, color_vars, rgb_vars>>

ScalarOthers == <<gui_vars, render_vars, kernel_vars, color_vars, rgb_vars, coord_vars>>

KernelOthers == <<gui_vars, render_vars, scalar_vars, color_vars, rgb_vars, coord_vars>>

ColorOthers == <<gui_vars, render_vars, scalar_vars, kernel_vars, rgb_vars, coord_vars>>

RgbOthers == <<gui_vars, render_vars, scalar_vars, kernel_vars, color_vars, coord_vars>>

\* Python's None, and the empty tuple of an unset result
None == <<>>

\* the components a specification does not run stay as they are here
GuiIdle ==
    /\ image_width = 0 /\ image_height = 0 /\ view_bounds = None
    /\ calculating = FALSE /\ zoom_history = <<>>
    /\ selection_active = FALSE /\ selection_start = None /\ selection_end = None
    /\ last_op = "idle" /\ pre_bounds = None /\ evicted = FALSE

\* max_iterations and current_palette as __init__ sets them, no thread
RenderIdle ==
    /\ max_iterations = 100 /\ current_palette = "default"
    /\ th_pc = "idle" /\ th_kind = "full" /\ th_preview = 0
    /\ th_args = <<>> /\ th_color = <<>> /\ th_views = {} /\ th_grid = None

ScalarIdle ==
    /\ s_c = None /\ s_max_iter = 0 /\ s_i = 0 /\ s_z = None
    /\ s_pc = "idle" /\ s_ret = -1

KernelIdle ==
    /\ k_args = None /\ k_npos = 0 /\ k_kw = {} /\ k_pc = "idle"
    /\ k_row = 0 /\ k_col = 0 /\ k_result = None /\ k_outcome = "none"

ColorIdle ==
    /\ c_iterations = None /\ c_max_iter = 0 /\ c_palette = "default"
    /\ c_pc = "idle" /\ c_row = 0 /\ c_col = 0 /\ c_rgb_image = None
    /\ c_raised = None

RgbIdle ==
    /\ r_iterations = 0 /\ r_palette = "default"
    /\ r_max_iter_a = 0 /\ r_max_iter_b = 0
    /\ r_pc = "idle" /\ r_rgb_a = None /\ r_rgb_b = None

CoordIdle ==
    /\ t_vb = None /\ t_a = None /\ t_b = None /\ t_pc = "idle"
    /\ t_complex = None /\ t_back = None /\ t_zoom_ab = None /\ t_zoom_ba = None

(***************************************************************************)
(* Coordinate transforms applied to drawn inputs                           *)
(***************************************************************************)
MaxDim == 5

\* <<x_min, x_max, y_min, y_max>>; the last one has no extent
CoordRegions ==
    { <<Frac(-5, 2), FromInt(1), Frac(-5, 4), Frac(5, 4)>>,
      <<Frac(1, 3), Frac(1, 2), Frac(-1, 7), FromInt(2)>>,
      <<FromInt(1), FromInt(1), FromInt(0), FromInt(0)>> }

Pixels(width, height) == (0..(width - 1)) \X (0..(height - 1))

CoordInit ==
    /\ GuiIdle /\ RenderIdle /\ ScalarIdle /\ KernelIdle /\ ColorIdle /\ RgbIdle
    /\ \E r \in CoordRegions, w \in 1..MaxDim, h \in 1..MaxDim :
           t_vb = ViewBounds(r[1], r[2], r[3], r[4], w, h)
    /\ t_a \in Pixels(t_vb.width, t_vb.height)
    /\ t_b \in Pixels(t_vb.width, t_vb.height)
    /\ t_pc = "start"
    /\ t_complex = None /\ t_back = None /\ t_zoom_ab = None /\ t_zoom_ba = None

ToComplex ==
    /\ t_pc = "start"
    /\ t_complex' = VB_pixel_to_complex(t_vb, t_a[1], t_a[2])
    /\ t_pc' = "complex"
    /\ UNCHANGED <<t_vb, t_a, t_b, t_back, t_zoom_ab, t_zoom_ba>>
    /\ UNCHANGED CoordOthers

ToPixel ==
    /\ t_pc = "complex"
    /\ t_back' = VB_complex_to_pixel(t_vb, t_complex)
    /\ t_pc' = "pixel"
    /\ UNCHANGED <<t_vb, t_a, t_b, t_complex, t_zoom_ab, t_zoom_ba>>
    /\ UNCHANGED CoordOthers

ZoomAB ==
    /\ t_pc = "pixel"
    /\ t_zoom_ab' = zoom_to_region(t_vb, t_a, t_b)
    /\ t_pc' = "zoom_ab"
    /\ UNCHANGED <<t_vb, t_a, t_b, t_complex, t_back, t_zoom_ba>>
    /\ UNCHANGED CoordOthers

ZoomBA ==
    /\ t_pc = "zoom_ab"
    /\ t_zoom_ba' = zoom_to_region(t_vb, t_b, t_a)
    /\ t_pc' = "done"
    /\ UNCHANGED <<t_vb, t_a, t_b, t_complex, t_back, t_zoom_ab>>
    /\ UNCHANGED CoordOthers

CoordNext == ToComplex \/ ToPixel \/ ZoomAB \/ ZoomBA

CoordSpec == CoordInit /\ [][CoordNext]_vars

(***************************************************************************)
(* pixel_to_complex applied along the rows and columns of drawn regions,   *)
(* some of them held as binary64 values                                    *)
(***************************************************************************)
\* <<x_min, x_max, y_min, y_max>>.  The last two are binary64 values:
\* [-3.0, -0.9] x [0.1, 0.7], and the region two units in the last place
\* wide and high at 1+1i
AxisRegions ==
    { <<Frac(-5, 2), FromInt(1), Frac(-5, 4), Frac(5, 4)>>,
      <<Frac(1, 3), Frac(1, 2), Frac(-1, 7), FromInt(2)>>,
      <<ToF64(FromInt(-3)), ToF64(Frac(-9, 10)), ToF64(Frac(1, 10)), ToF64(Frac(7, 10))>>,
      <<F64(FALSE, {0}), F64(FALSE, {0, 2 - float_mant_dig}),
        F64(FALSE, {0}), F64(FALSE, {0, 2 - float_mant_dig})>> }

AxisInit ==
    /\ GuiIdle /\ RenderIdle /\ ScalarIdle /\ KernelIdle /\ ColorIdle /\ RgbIdle
    /\ \E r \in AxisRegions, w \in 1..MaxDim, h \in 1..MaxDim :
           t_vb = ViewBounds(r[1], r[2], r[3], r[4], w, h)
    /\ t_a \in Pixels(t_vb.width, t_vb.height)
    /\ t_b = t_a
    /\ t_pc = "start"
    /\ t_complex = None /\ t_back = None /\ t_zoom_ab = None /\ t_zoom_ba = None

AxisNext == ToComplex

AxisSpec == AxisInit /\ [][AxisNext]_vars

(***************************************************************************)
(* complex_to_pixel applied to drawn points, inside and outside the region *)
(***************************************************************************)
\* the regions of CoordRegions, one without width and one without height
PointRegions ==
    CoordRegions \cup
    { <<FromInt(1), FromInt(1), Frac(-5, 4), Frac(5, 4)>>,
      <<Frac(-5, 2), FromInt(1), FromInt(0), FromInt(0)>> }

\* real and imaginary parts of the points
PointParts ==
    {FromInt(-100), FromInt(-3), FromInt(0), Frac(1, 3), FromInt(1), FromInt(100)}

PointInit ==
    /\ GuiIdle /\ RenderIdle /\ ScalarIdle /\ KernelIdle /\ ColorIdle /\ RgbIdle
    /\ \E r \in PointRegions, w \in 1..MaxDim, h \in 1..MaxDim :
           t_vb = ViewBounds(r[1], r[2], r[3], r[4], w, h)
    /\ \E re \in PointParts, im \in PointParts : t_complex = Complex(re, im)
    /\ t_a = <<0, 0>> /\ t_b = <<0, 0>>
    /\ t_pc = "complex"
    /\ t_back = None /\ t_zoom_ab = None /\ t_zoom_ba = None

PointNext == ToPixel

PointSpec == PointInit /\ [][PointNext]_vars

(***************************************************************************)
(* mandelbrot_iterations run on drawn points                               *)
(***************************************************************************)
MaxIter == 4

\* halves in [-2, 2]: doubles hold every z the loop tests on them exactly
Halves == { Frac(n, 2) : n \in -4..4 }

ScalarInit ==
    /\ GuiIdle /\ RenderIdle /\ KernelIdle /\ ColorIdle /\ RgbIdle /\ CoordIdle
    /\ \E re \in Halves, im \in Halves : s_c = Complex(re, im)
    /\ s_max_iter \in 0..MaxIter
    /\ s_i = 1
    /\ s_z = CZero
    /\ s_pc = "test"
    /\ s_ret = -1

\* for i in range(1, max_iter + 1): if abs(z) > 2.0: return i - 1
LoopTest ==
    /\ s_pc = "test"
    /\ s_i <= s_max_iter
    /\ IF Escaped(s_z)
       THEN s_ret' = s_i - 1 /\ s_pc' = "done"
       ELSE s_ret' = s_ret /\ s_pc' = "step"
    /\ UNCHANGED <<s_c, s_max_iter, s_i, s_z>>
    /\ UNCHANGED ScalarOthers

\* z = z * z + c
LoopStep ==
    /\ s_pc = "step"
    /\ s_z' = CSquarePlus(s_z, s_c)
    /\ s_i' = s_i + 1
    /\ s_pc' = "test"
    /\ UNCHANGED <<s_c, s_max_iter, s_ret>>
    /\ UNCHANGED ScalarOthers

\* the end of the range returning 0 for a point that has not escaped
LoopEnd_returns_zero ==
    /\ s_pc = "test"
    /\ s_i > s_max_iter
    /\ s_ret' = 0
    /\ s_pc' = "done"
    /\ UNCHANGED <<s_c, s_max_iter, s_i, s_z>>
    /\ UNCHANGED ScalarOthers

\* the range is exhausted: return max_iter
LoopEnd ==
    /\ s_pc = "test"
    /\ s_i > s_max_iter
    /\ s_ret' = s_max_iter
    /\ s_pc' = "done"
    /\ UNCHANGED <<s_c, s_max_iter, s_i, s_z>>
    /\ UNCHANGED ScalarOthers

ScalarNext == LoopTest \/ LoopStep \/ LoopEnd

ScalarSpec == ScalarInit /\ [][ScalarNext]_vars

(***************************************************************************)
(* mandelbrot_array called on drawn regions                                *)
(***************************************************************************)
MaxGrid == 3

\* pixel steps of the drawn regions: with them every evaluated point is in
\* halves, as in Halves
Steps == {Frac(1, 2), FromInt(1), FromInt(2), FromInt(4)}

\* steps of regions without extent: x_max = x_min, and x_max < x_min
FlatSteps == {FromInt(0), FromInt(-1)}

KernelArgs ==
    { [width |-> w, height |-> h,
       x_min |-> x0, x_max |-> FAdd(x0, FMul(FromInt(w), sx)),
       y_min |-> FSub(y1, FMul(FromInt(h), sy)), y_max |-> y1,
       max_iter |-> m] :
         w \in 1..MaxGrid, h \in 1..MaxGrid,
         x0 \in {FromInt(-2), Frac(-1, 2)}, y1 \in {FromInt(2), Frac(1, 2)},
         sx \in Steps \cup FlatSteps, sy \in Steps \cup FlatSteps,
         m \in 0..MaxIter }

\* the calls the repository makes: seven positional arguments (the GUIs),
\* use_parallel as a keyword (test_parallel_correctness.py,
\* benchmark_parallel.py) or as an eighth positional (benchmark_simple.py)
CallForms == { <<7, {}>>, <<7, {"use_parallel"}>>, <<8, {}>> }

AsksForMode == k_npos = 8 \/ "use_parallel" \in k_kw

KernelInit ==
    /\ GuiIdle /\ RenderIdle /\ ScalarIdle /\ ColorIdle /\ RgbIdle /\ CoordIdle
    /\ k_args \in KernelArgs
    /\ \E f \in CallForms : k_npos = f[1] /\ k_kw = f[2]
    /\ k_pc = "call"
    /\ k_row = 0 /\ k_col = 0
    /\ k_result = None
    /\ k_outcome = "none"

\* the call binds its arguments, or raises TypeError
ArrayCall ==
    /\ k_pc = "call"
    /\ IF BindsOk(k_npos, k_kw)
       THEN /\ k_pc' = "kernel"
            /\ k_result' = Zeros(k_args.height, k_args.width)
            /\ k_outcome' = k_outcome
       ELSE /\ k_pc' = "raised"
            /\ k_result' = k_result
            /\ k_outcome' = "TypeError"
    /\ UNCHANGED <<k_args, k_npos, k_kw, k_row, k_col>>
    /\ UNCHANGED KernelOthers

\* the inner loop of _mandelbrot_kernel stepping its column by two
KernelPixel_skipping ==
    /\ k_pc = "kernel"
    /\ k_row < k_args.height
    /\ k_result' = [k_result EXCEPT ![<<k_row, k_col>>] =
           _mandelbrot_iterations_fast(KernelPoint(k_args, k_row, k_col),
                                       k_args.max_iter)]
    /\ IF k_col + 2 < k_args.width
       THEN k_col' = k_col + 2 /\ k_row' = k_row
       ELSE k_col' = 0 /\ k_row' = k_row + 1
    /\ UNCHANGED <<k_args, k_npos, k_kw, k_pc, k_outcome>>
    /\ UNCHANGED KernelOthers

\* one pass of the inner loop of _mandelbrot_kernel
KernelPixel ==
    /\ k_pc = "kernel"
    /\ k_row < k_args.height
    /\ k_result' = [k_result EXCEPT ![<<k_row, k_col>>] =
           _mandelbrot_iterations_fast(KernelPoint(k_args, k_row, k_col),
                                       k_args.max_iter)]
    /\ IF k_col + 1 < k_args.width
       THEN k_col' = k_col + 1 /\ k_row' = k_row
       ELSE k_col' = 0 /\ k_row' = k_row + 1
    /\ UNCHANGED <<k_args, k_npos, k_kw, k_pc, k_outcome>>
    /\ UNCHANGED KernelOthers

KernelReturn ==
    /\ k_pc = "kernel"
    /\ k_row = k_args.height
    /\ k_pc' = "returned"
    /\ k_outcome' = "grid"
    /\ UNCHANGED <<k_args, k_npos, k_kw, k_row, k_col, k_result>>
    /\ UNCHANGED KernelOthers

KernelNext == ArrayCall \/ KernelPixel \/ KernelReturn

KernelSpec == KernelInit /\ [][KernelNext]_vars

\* the calls followed to their end: regions whose top-left corner is -2+2i
LiveSteps == {FromInt(0), Frac(1, 2), FromInt(1)}

KernelLiveInit ==
    /\ KernelInit
    /\ k_args.x_min = FromInt(-2) /\ k_args.y_max = FromInt(2)
    /\ x_step(k_args) \in LiveSteps /\ y_step(k_args) \in LiveSteps

\* the position of a call: its phase and the cursor of its loops
kernel_pos == <<k_pc, k_row, k_col>>

\* a call that has neither raised nor returned moves on
KernelMoves ==
    /\ k_pc \in {"call", "kernel"}
    /\ k_pc' \in {"kernel", "raised", "returned"}
    /\ k_row' \in 0..k_args.height
    /\ k_col' \in 0..(k_args.width - 1)

\* a call that has started keeps running: the loops of _mandelbrot_kernel
\* wait for nothing
KernelLiveSpec ==
    KernelLiveInit /\ [][KernelNext]_vars /\ WF_kernel_pos(KernelMoves)

(***************************************************************************)
(* iterations_to_rgb_array called on drawn grids                           *)
(***************************************************************************)
MaxColorIter == 8

MaxShape == 2

\* the grids drawn: counts 0 .. max_iter + 1, a different one in each cell
\* where the shape allows
ColorGrid(h, w, m, k0, k1) ==
    [p \in (0..(h - 1)) \X (0..(w - 1)) |-> (k0 + p[1] * k1 + p[2]) % (m + 2)]

ColorInit ==
    /\ GuiIdle /\ RenderIdle /\ ScalarIdle /\ KernelIdle /\ RgbIdle /\ CoordIdle
    /\ c_max_iter \in 0..MaxColorIter
    /\ c_palette \in _PALETTES \cup {"plasma"}
    /\ \E h \in 1..MaxShape, w \in 1..MaxShape,
          k0 \in 0..(c_max_iter + 1), k1 \in 1..2 :
           c_iterations = [shape |-> <<h, w>>,
                           cells |-> ColorGrid(h, w, c_max_iter, k0, k1)]
    /\ c_pc = "call"
    /\ c_row = 0 /\ c_col = 0
    /\ c_rgb_image = None
    /\ c_raised = None

\* the palette check, then np.zeros((height, width, 3), dtype=np.uint8)
ColorCall ==
    /\ c_pc = "call"
    /\ IF c_palette \notin _PALETTES
       THEN /\ c_pc' = "ValueError"
            /\ c_raised' = ValueError(c_palette)
            /\ c_rgb_image' = c_rgb_image
       ELSE /\ c_pc' = "cells"
            /\ c_raised' = c_raised
            /\ c_rgb_image' = [p \in DOMAIN c_iterations.cells |-> <<0, 0, 0>>]
    /\ UNCHANGED <<c_iterations, c_max_iter, c_palette, c_row, c_col>>
    /\ UNCHANGED ColorOthers

\* rgb_image[row, col] = _apply_palette_direct(iterations[row, col], ...)
ColorCell ==
    /\ c_pc = "cells"
    /\ c_row < c_iterations.shape[1]
    /\ LET iter_count == c_iterations.cells[<<c_row, c_col>>]
           rgb == _apply_palette_direct(iter_count, c_max_iter, c_palette)
       IN  c_rgb_image' = [c_rgb_image EXCEPT ![<<c_row, c_col>>] = StoreRgb(rgb)]
    /\ IF c_col + 1 < c_iterations.shape[2]
       THEN c_col' = c_col + 1 /\ c_row' = c_row
       ELSE c_col' = 0 /\ c_row' = c_row + 1
    /\ UNCHANGED <<c_iterations, c_max_iter, c_palette, c_pc, c_raised>>
    /\ UNCHANGED ColorOthers

ColorReturn ==
    /\ c_pc = "cells"
    /\ c_row = c_iterations.shape[1]
    /\ c_pc' = "returned"
    /\ UNCHANGED <<c_iterations, c_max_iter, c_palette, c_row, c_col, c_rgb_image,
                   c_raised>>
    /\ UNCHANGED ColorOthers

ColorNext == ColorCall \/ ColorCell \/ ColorReturn

ColorSpec == ColorInit /\ [][ColorNext]_vars

(***************************************************************************)
(* iterations_to_rgb called twice on one count, under two values of        *)
(* max_iter                                                                *)
(***************************************************************************)
MaxCount == 26

\* sample_iter of compare_static_vs_dynamic
sample_iter == 25

\* the values of max_iter drawn: small ones, and 50 and 500 of max_iters
RgbCaps == {0, 1, 7, 50, 500}

RgbInit ==
    /\ GuiIdle /\ RenderIdle /\ ScalarIdle /\ KernelIdle /\ ColorIdle /\ CoordIdle
    /\ r_iterations \in 0..MaxCount
    /\ r_palette \in _PALETTES \cup {"plasma"}
    /\ r_max_iter_a \in RgbCaps
    /\ r_max_iter_b \in RgbCaps
    /\ r_pc = "first"
    /\ r_rgb_a = None /\ r_rgb_b = None

RgbFirst ==
    /\ r_pc = "first"
    /\ r_rgb_a' = iterations_to_rgb(r_iterations, r_max_iter_a, r_palette)
    /\ r_pc' = "second"
    /\ UNCHANGED <<r_iterations, r_palette, r_max_iter_a, r_max_iter_b, r_rgb_b>>
    /\ UNCHANGED RgbOthers

RgbSecond ==
    /\ r_pc = "second"
    /\ r_rgb_b' = iterations_to_rgb(r_iterations, r_max_iter_b, r_palette)
    /\ r_pc' = "done"
    /\ UNCHANGED <<r_iterations, r_palette, r_max_iter_a, r_max_iter_b, r_rgb_a>>
    /\ UNCHANGED RgbOthers

RgbNext == RgbFirst \/ RgbSecond

RgbSpec == RgbInit /\ [][RgbNext]_vars

(***************************************************************************)
(* mandelbrot_gui.py: MandelbrotGUI                                        *)
(***************************************************************************)
max_history == 10

\* ViewBounds(-2.5, 1.0, -1.25, 1.25, width, height)
DefaultView(width, height) ==
    ViewBounds(Frac(-5, 2), FromInt(1), Frac(-5, 4), Frac(5, 4), width, height)

\* current_bounds of _save_to_history
BoundsOf(vb) == <<vb.x_min, vb.x_max, vb.y_min, vb.y_max>>

\* _save_to_history appending without comparing with the newest entry
_save_to_history_always(history, vb) ==
    LET current_bounds == BoundsOf(vb)
        appended == Append(history, current_bounds)
    IN  IF Len(appended) > max_history THEN Tail(appended) ELSE appended

\* _save_to_history skipping bounds found anywhere in the history
_save_to_history_unique(history, vb) ==
    LET current_bounds == BoundsOf(vb)
    IN  IF \A j \in 1..Len(history) : history[j] # current_bounds
        THEN LET appended == Append(history, current_bounds)
             IN  IF Len(appended) > max_history THEN Tail(appended) ELSE appended
        ELSE history

\* _save_to_history trimming with pop() instead of pop(0)
_save_to_history_pop_newest(history, vb) ==
    LET current_bounds == BoundsOf(vb)
    IN  IF history = <<>> \/ history[Len(history)] # current_bounds
        THEN LET appended == Append(history, current_bounds)
             IN  IF Len(appended) > max_history
                 THEN SubSeq(appended, 1, Len(appended) - 1)
                 ELSE appended
        ELSE history

_save_to_history(history, vb) ==
    LET current_bounds == BoundsOf(vb)
    IN  IF history = <<>> \/ history[Len(history)] # current_bounds
        THEN LET appended == Append(history, current_bounds)
             IN  IF Len(appended) > max_history THEN Tail(appended) ELSE appended
        ELSE history

\* whether that _save_to_history runs zoom_history.pop(0)
DropsOldest(history, vb) ==
    /\ (history = <<>> \/ history[Len(history)] # BoundsOf(vb))
    /\ Len(history) + 1 > max_history

\* _zoom_to_point taking the point for the corner (x_min, y_min)
_zoom_to_point_cornered(vb, point, zoom_factor, width, height) ==
    LET new_width == FDiv(complex_width(vb), zoom_factor)
        new_height == FDiv(complex_height(vb), zoom_factor)
    IN  ViewBounds(point.real, FAdd(point.real, new_width),
                   point.imag, FAdd(point.imag, new_height),
                   width, height)

\* the bounds _zoom_to_point commits
_zoom_to_point(vb, point, zoom_factor, width, height) ==
    LET new_width == FDiv(complex_width(vb), zoom_factor)
        new_height == FDiv(complex_height(vb), zoom_factor)
        two == FromInt(2)
    IN  ViewBounds(FSub(point.real, FDiv(new_width, two)),
                   FAdd(point.real, FDiv(new_width, two)),
                   FSub(point.imag, FDiv(new_height, two)),
                   FAdd(point.imag, FDiv(new_height, two)),
                   width, height)

\* the bounds _zoom_to_selection commits
_zoom_to_selection(vb, start, end) ==
    LET min_x == IMin(start[1], end[1])
        max_x == IMax(start[1], end[1])
        min_y == IMin(start[2], end[2])
        max_y == IMax(start[2], end[2])
    IN  zoom_to_region(vb, <<min_x, min_y>>, <<max_x, max_y>>)

\* _zoom_out doubling the extents from the corner (x_min, y_min)
_zoom_out_anchored(vb, width, height) ==
    LET new_width == FMul(complex_width(vb), FromInt(2))
        new_height == FMul(complex_height(vb), FromInt(2))
    IN  ViewBounds(vb.x_min, FAdd(vb.x_min, new_width),
                   vb.y_min, FAdd(vb.y_min, new_height),
                   width, height)

\* the bounds _zoom_out commits
_zoom_out(vb, width, height) ==
    LET c == center(vb)
        new_width == FMul(complex_width(vb), FromInt(2))
        new_height == FMul(complex_height(vb), FromInt(2))
        two == FromInt(2)
    IN  ViewBounds(FSub(c.real, FDiv(new_width, two)),
                   FAdd(c.real, FDiv(new_width, two)),
                   FSub(c.imag, FDiv(new_height, two)),
                   FAdd(c.imag, FDiv(new_height, two)),
                   width, height)

\* _on_mouse_release takes the selection branch
IsAreaSelection(start, end) ==
    Abs(end[1] - start[1]) > 20 /\ Abs(end[2] - start[2]) > 20

\* the view a release commits when it zooms
ReleaseView(vb, start, end, width, height) ==
    IF IsAreaSelection(start, end)
    THEN _zoom_to_selection(vb, start, end)
    ELSE _zoom_to_point(vb, VB_pixel_to_complex(vb, start[1], start[2]),
                        FromInt(4), width, height)

\* _zoom_back popping whenever the history is not empty
_zoom_back_to_empty(history, vb, width, height) ==
    IF Len(history) > 0
    THEN LET popped == SubSeq(history, 1, Len(history) - 1)
         IN  IF popped = <<>>
             THEN <<popped, vb>>
             ELSE LET prev == popped[Len(popped)]
                  IN  <<popped,
                        ViewBounds(prev[1], prev[2], prev[3], prev[4], width, height)>>
    ELSE <<history, vb>>

\* _zoom_back: <<zoom_history, view_bounds>> after it
_zoom_back(history, vb, width, height) ==
    IF Len(history) > 1
    THEN LET popped == SubSeq(history, 1, Len(history) - 1)
             prev == popped[Len(popped)]
         IN  <<popped, ViewBounds(prev[1], prev[2], prev[3], prev[4], width, height)>>
    ELSE <<history, vb>>

(***************************************************************************)
(* The GUI driven by its callbacks                                         *)
(***************************************************************************)
\* MandelbrotGUI(65, 65)
ImageSize == <<65, 65>>

\* where the mouse is pressed and where it is dragged to: a drag from the
\* centre is a click on the centre, one from (16, 16) selects the middle
PressPixels == { <<32, 32>>, <<16, 16>> }

DragPixels == { <<48, 48>> }

\* the views explored: no wider than the default view, and no narrower
\* than 2^-MaxZoomIn of it
MaxZoomIn == 2

DefaultWidth == complex_width(DefaultView(ImageSize[1], ImageSize[2]))

InZoomRange(vb) ==
    /\ ~FLess(FMul(complex_width(vb), FromInt(2 ^ MaxZoomIn)), DefaultWidth)
    /\ ~FLess(DefaultWidth, complex_width(vb))

GuiInit ==
    /\ RenderIdle
    /\ ScalarIdle /\ KernelIdle /\ ColorIdle /\ RgbIdle /\ CoordIdle
    /\ image_width = ImageSize[1]
    /\ image_height = ImageSize[2]
    /\ view_bounds = DefaultView(ImageSize[1], ImageSize[2])
    /\ calculating = FALSE
    /\ zoom_history = <<>>
    /\ selection_active = FALSE
    /\ selection_start = None
    /\ selection_end = None
    /\ last_op = "init"
    /\ pre_bounds = None
    /\ evicted = FALSE

\* what a callback leaves alone besides the fields of the view and the
\* selection
Others == <<render_vars, scalar_vars, kernel_vars, color_vars, rgb_vars, coord_vars>>

NoZoomIn == last_op' = "other" /\ pre_bounds' = None /\ evicted' = FALSE

\* _render_mandelbrot: starts the calculation thread unless one is running
RenderStarted == calculating' = TRUE

\* _on_mouse_press with the mouse over one of the pixels
PressAt(pixels) ==
    /\ \E pos \in pixels :
        /\ selection_start' = pos
        /\ selection_end' = None
        /\ selection_active' = TRUE
    /\ NoZoomIn
    /\ UNCHANGED <<image_width, image_height, view_bounds, calculating, zoom_history>>
    /\ UNCHANGED Others

\* _on_mouse_drag with the mouse over one of the pixels
DragTo(pixels) ==
    /\ \E pos \in pixels :
        selection_end' = IF selection_active THEN pos ELSE selection_end
    /\ NoZoomIn
    /\ UNCHANGED <<image_width, image_height, view_bounds, calculating, zoom_history,
                   selection_active, selection_start>>
    /\ UNCHANGED Others

\* _on_mouse_release
MouseRelease ==
    /\ IF selection_active /\ selection_start # None /\ selection_end # None
       THEN LET new_view == ReleaseView(view_bounds, selection_start, selection_end,
                                        image_width, image_height)
            IN  /\ zoom_history' = _save_to_history(zoom_history, view_bounds)
                /\ evicted' = DropsOldest(zoom_history, view_bounds)
                /\ view_bounds' = new_view
                /\ pre_bounds' = BoundsOf(view_bounds)
                /\ last_op' = "zoom_in"
                /\ RenderStarted
       ELSE /\ NoZoomIn
            /\ UNCHANGED <<view_bounds, zoom_history, calculating>>
    /\ selection_active' = FALSE
    /\ selection_start' = None
    /\ selection_end' = None
    /\ UNCHANGED <<image_width, image_height>>
    /\ UNCHANGED Others

OnMousePress == PressAt(PressPixels)

OnMouseDrag == DragTo(DragPixels)

\* a release that keeps the view within the ones explored
OnMouseRelease == MouseRelease /\ InZoomRange(view_bounds')

ResetView ==
    /\ view_bounds' = DefaultView(image_width, image_height)
    /\ RenderStarted
    /\ NoZoomIn
    /\ UNCHANGED <<image_width, image_height, zoom_history,
                   selection_active, selection_start, selection_end>>
    /\ UNCHANGED Others

\* the Zoom Out button
OnZoomOut ==
    /\ view_bounds' = _zoom_out(view_bounds, image_width, image_height)
    /\ RenderStarted
    /\ last_op' = "zoom_out"
    /\ pre_bounds' = BoundsOf(view_bounds)
    /\ evicted' = FALSE
    /\ UNCHANGED <<image_width, image_height, zoom_history,
                   selection_active, selection_start, selection_end>>
    /\ UNCHANGED Others

\* a zoom out that keeps the view within the ones explored
ZoomOut ==
    /\ InZoomRange(_zoom_out(view_bounds, image_width, image_height))
    /\ OnZoomOut

ZoomBack ==
    /\ LET after == _zoom_back(zoom_history, view_bounds, image_width, image_height)
       IN  /\ zoom_history' = after[1]
           /\ view_bounds' = after[2]
    /\ calculating' = IF Len(zoom_history) > 1 THEN TRUE ELSE calculating
    /\ last_op' = "back"
    /\ pre_bounds' = None
    /\ evicted' = FALSE
    /\ UNCHANGED <<image_width, image_height,
                   selection_active, selection_start, selection_end>>
    /\ UNCHANGED Others

\* the Render button
Render ==
    /\ RenderStarted
    /\ NoZoomIn
    /\ UNCHANGED <<image_width, image_height, view_bounds, zoom_history,
                   selection_active, selection_start, selection_end>>
    /\ UNCHANGED Others

\* the calculation thread ends: finally: self.calculating = False
CalculationDone ==
    /\ calculating
    /\ calculating' = FALSE
    /\ UNCHANGED <<image_width, image_height, view_bounds, zoom_history,
                   selection_active, selection_start, selection_end,
                   last_op, pre_bounds, evicted>>
    /\ UNCHANGED Others

Next ==
    \/ OnMousePress
    \/ OnMouseDrag
    \/ OnMouseRelease
    \/ ResetView
    \/ ZoomOut
    \/ ZoomBack
    \/ Render
    \/ CalculationDone

Spec == GuiInit /\ [][Next]_vars

(***************************************************************************)
(* The GUI zoomed deep: clicks on the centre of the image, with the view   *)
(* bounds held as binary64 values                                          *)
(***************************************************************************)
\* the clicks explored: MaxDeepZoom zooms by 4 from the default view
MaxDeepZoom == 28

F64View(vb) ==
    ViewBounds(ToF64(vb.x_min), ToF64(vb.x_max), ToF64(vb.y_min), ToF64(vb.y_max),
               vb.width, vb.height)

DeepInit ==
    /\ RenderIdle
    /\ ScalarIdle /\ KernelIdle /\ ColorIdle /\ RgbIdle /\ CoordIdle
    /\ image_width = ImageSize[1]
    /\ image_height = ImageSize[2]
    /\ view_bounds = F64View(DefaultView(ImageSize[1], ImageSize[2]))
    /\ calculating = FALSE
    /\ zoom_history = <<>>
    /\ selection_active = FALSE
    /\ selection_start = None
    /\ selection_end = None
    /\ last_op = "init"
    /\ pre_bounds = None
    /\ evicted = FALSE

\* the pixel in the middle of the image, and the one next to it
CentrePixel == <<(image_width - 1) \div 2, (image_height - 1) \div 2>>

NextToCentre == <<CentrePixel[1] + 1, CentrePixel[2] + 1>>

\* the view is fewer than MaxDeepZoom clicks deep
FewerClicksDeep(vb) ==
    ~FLess(FMul(complex_width(vb), TwoTo(2 * MaxDeepZoom - 1)), DefaultWidth)

DeepPress == PressAt({CentrePixel})

DeepDrag == DragTo({NextToCentre})

\* a release in a view from which the explored ones are not left
DeepRelease == FewerClicksDeep(view_bounds) /\ MouseRelease

DeepNext ==
    \/ DeepPress
    \/ DeepDrag
    \/ DeepRelease
    \/ ZoomBack
    \/ Render
    \/ CalculationDone

DeepZoomSpec == DeepInit /\ [][DeepNext]_vars

(***************************************************************************)
(* The GUI at its default size, zoomed in by clicks off the centre and out *)
(* again, with the view bounds held as binary64 values                     *)
(***************************************************************************)
\* MandelbrotGUI()
DefaultImageSize == <<600, 400>>

\* the clicks explored
MaxClicks == 2

\* where the mouse is pressed, and where it is when released
ClickPixel == <<86, 92>>

ClickRelease == <<87, 93>>

FloatInit ==
    /\ RenderIdle
    /\ ScalarIdle /\ KernelIdle /\ ColorIdle /\ RgbIdle /\ CoordIdle
    /\ image_width = DefaultImageSize[1]
    /\ image_height = DefaultImageSize[2]
    /\ view_bounds = F64View(DefaultView(DefaultImageSize[1], DefaultImageSize[2]))
    /\ calculating = FALSE
    /\ zoom_history = <<>>
    /\ selection_active = FALSE
    /\ selection_start = None
    /\ selection_end = None
    /\ last_op = "init"
    /\ pre_bounds = None
    /\ evicted = FALSE

FloatPress == PressAt({ClickPixel})

FloatDrag == DragTo({ClickRelease})

\* a release after fewer than MaxClicks zooms
FloatRelease == Len(zoom_history) < MaxClicks /\ MouseRelease

\* a zoom out to a view no wider than the default view
FloatZoomOut ==
    /\ ~FLess(DefaultWidth,
              complex_width(_zoom_out(view_bounds, image_width, image_height)))
    /\ OnZoomOut

FloatNext ==
    \/ FloatPress
    \/ FloatDrag
    \/ FloatRelease
    \/ FloatZoomOut
    \/ ResetView
    \/ Render
    \/ CalculationDone

FloatZoomSpec == FloatInit /\ [][FloatNext]_vars

(***************************************************************************)
(* The calculation thread run against the callbacks                        *)
(***************************************************************************)
\* the views explored: up to 2^MaxZoomOut times as wide as the default view
MaxZoomOut == 1

\* where the iterations slider is moved to, what the palette combo selects,
\* <<width, height>> of the main window after a resize
SliderValues == {50, 500}

ComboValues == {"default", "hot"}

WindowSizes == { <<287, 337>> }

\* the view region: the dimensions and the four bounds
CurrentView ==
    <<image_width, image_height,
      view_bounds.x_min, view_bounds.x_max, view_bounds.y_min, view_bounds.y_max>>

ThreadOthers == <<scalar_vars, kernel_vars, color_vars, rgb_vars, coord_vars>>

RenderZoomOut ==
    /\ FLess(complex_width(view_bounds), FMul(DefaultWidth, FromInt(2 ^ MaxZoomOut)))
    /\ OnZoomOut

\* _on_iterations_changed
OnIterationsChanged ==
    /\ \E app_data \in SliderValues : max_iterations' = app_data
    /\ UNCHANGED <<current_palette, th_pc, th_kind, th_preview, th_args, th_color,
                   th_views, th_grid>>
    /\ UNCHANGED gui_vars
    /\ UNCHANGED ThreadOthers

\* _on_palette_changed
OnPaletteChanged ==
    /\ \E app_data \in ComboValues : current_palette' = app_data
    /\ UNCHANGED <<max_iterations, th_pc, th_kind, th_preview, th_args, th_color,
                   th_views, th_grid>>
    /\ UNCHANGED gui_vars
    /\ UNCHANGED ThreadOthers

\* _on_window_resize starting its preview thread without looking at
\* self.calculating
OnWindowResize_unguarded ==
    /\ \E window \in WindowSizes :
        LET new_image_width == IMax(200, window[1] - 30)
            new_image_height == IMax(150, window[2] - 80)
            width_diff == Abs(new_image_width - image_width)
            height_diff == Abs(new_image_height - image_height)
        IN  IF width_diff > 10 \/ height_diff > 10
            THEN /\ image_width' = new_image_width
                 /\ image_height' = new_image_height
                 /\ view_bounds' = ViewBounds(view_bounds.x_min, view_bounds.x_max,
                                              view_bounds.y_min, view_bounds.y_max,
                                              new_image_width, new_image_height)
                 /\ calculating' = TRUE
                 /\ th_preview' = IMin(50, max_iterations \div 2)
                 /\ th_kind' = "quick"
                 /\ th_pc' = "args"
                 /\ th_args' = <<>>
                 /\ th_color' = <<>>
                 /\ th_views' = {}
                 /\ th_grid' = None
            ELSE UNCHANGED <<image_width, image_height, view_bounds, calculating,
                             th_pc, th_kind, th_preview, th_args, th_color,
                             th_views, th_grid>>
    /\ NoZoomIn
    /\ UNCHANGED <<zoom_history, selection_active, selection_start, selection_end>>
    /\ UNCHANGED <<max_iterations, current_palette>>
    /\ UNCHANGED ThreadOthers

\* _on_window_resize past its throttle, with _render_mandelbrot_optimized:
\* the thread it starts runs quick_calculation
OnWindowResize ==
    /\ \E window \in WindowSizes :
        LET new_image_width == IMax(200, window[1] - 30)
            new_image_height == IMax(150, window[2] - 80)
            width_diff == Abs(new_image_width - image_width)
            height_diff == Abs(new_image_height - image_height)
        IN  IF width_diff > 10 \/ height_diff > 10
            THEN /\ image_width' = new_image_width
                 /\ image_height' = new_image_height
                 /\ view_bounds' = ViewBounds(view_bounds.x_min, view_bounds.x_max,
                                              view_bounds.y_min, view_bounds.y_max,
                                              new_image_width, new_image_height)
                 /\ IF calculating
                    THEN UNCHANGED <<calculating, th_pc, th_kind, th_preview,
                                     th_args, th_color, th_views, th_grid>>
                    ELSE /\ calculating' = TRUE
                         /\ th_preview' = IMin(50, max_iterations \div 2)
                         /\ th_kind' = "quick"
                         /\ th_pc' = "args"
                         /\ th_args' = <<>>
                         /\ th_color' = <<>>
                         /\ th_views' = {}
                         /\ th_grid' = None
            ELSE UNCHANGED <<image_width, image_height, view_bounds, calculating,
                             th_pc, th_kind, th_preview, th_args, th_color,
                             th_views, th_grid>>
    /\ NoZoomIn
    /\ UNCHANGED <<zoom_history, selection_active, selection_start, selection_end>>
    /\ UNCHANGED <<max_iterations, current_palette>>
    /\ UNCHANGED ThreadOthers

\* the thread _render_mandelbrot started begins _calculate_mandelbrot
ThreadStart ==
    /\ calculating /\ th_pc = "idle"
    /\ th_kind' = "full"
    /\ th_pc' = "args"
    /\ th_args' = <<>>
    /\ th_color' = <<>>
    /\ th_views' = {}
    /\ th_grid' = None
    /\ UNCHANGED <<max_iterations, current_palette, th_preview>>
    /\ UNCHANGED gui_vars
    /\ UNCHANGED ThreadOthers

\* the thread evaluates the next argument of its mandelbrot_array call
ThreadReadArg ==
    /\ th_pc = "args" /\ Len(th_args) < 7
    /\ LET n == Len(th_args) + 1
           value == CASE n = 1 -> image_width
                      [] n = 2 -> image_height
                      [] n = 3 -> view_bounds.x_min
                      [] n = 4 -> view_bounds.x_max
                      [] n = 5 -> view_bounds.y_min
                      [] n = 6 -> view_bounds.y_max
                      [] n = 7 -> IF th_kind = "quick" THEN th_preview
                                  ELSE max_iterations
       IN  /\ th_args' = Append(th_args, value)
           /\ th_views' = IF n <= 6 THEN th_views \cup {CurrentView} ELSE th_views
    /\ UNCHANGED <<max_iterations, current_palette, th_pc, th_kind, th_preview,
                   th_color, th_grid>>
    /\ UNCHANGED gui_vars
    /\ UNCHANGED ThreadOthers

\* iterations = mandelbrot_array(...): the grid, held as the arguments it was
\* evaluated with
ThreadEvaluate ==
    /\ th_pc = "args" /\ Len(th_args) = 7
    /\ th_grid' = th_args
    /\ th_pc' = "color_args"
    /\ UNCHANGED <<max_iterations, current_palette, th_kind, th_preview, th_args,
                   th_color, th_views>>
    /\ UNCHANGED gui_vars
    /\ UNCHANGED ThreadOthers

\* the thread evaluates the next argument of its iterations_to_rgb_array
\* call, after iterations: max_iter, then palette
ThreadReadColorArg ==
    /\ th_pc = "color_args" /\ Len(th_color) < 2
    /\ LET value == IF Len(th_color) = 1 THEN current_palette
                    ELSE IF th_kind = "quick" THEN th_preview
                    ELSE max_iterations
       IN  th_color' = Append(th_color, value)
    /\ UNCHANGED <<max_iterations, current_palette, th_pc, th_kind, th_preview,
                   th_args, th_views, th_grid>>
    /\ UNCHANGED gui_vars
    /\ UNCHANGED ThreadOthers

\* rgb_image = iterations_to_rgb_array(...), then the texture update
ThreadColorMap ==
    /\ th_pc = "color_args" /\ Len(th_color) = 2
    /\ th_pc' = "texture"
    /\ UNCHANGED <<max_iterations, current_palette, th_kind, th_preview, th_args,
                   th_color, th_views, th_grid>>
    /\ UNCHANGED gui_vars
    /\ UNCHANGED ThreadOthers

\* finally: self.calculating = False
ThreadFinally ==
    /\ th_pc = "texture"
    /\ calculating' = FALSE
    /\ th_pc' = "idle"
    /\ UNCHANGED <<max_iterations, current_palette, th_kind, th_preview, th_args,
                   th_color, th_views, th_grid>>
    /\ UNCHANGED <<image_width, image_height, view_bounds, zoom_history,
                   selection_active, selection_start, selection_end,
                   last_op, pre_bounds, evicted>>
    /\ UNCHANGED ThreadOthers

RenderNext ==
    \/ Render
    \/ ResetView
    \/ RenderZoomOut
    \/ OnIterationsChanged
    \/ OnPaletteChanged
    \/ OnWindowResize
    \/ ThreadStart
    \/ ThreadReadArg
    \/ ThreadEvaluate
    \/ ThreadReadColorArg
    \/ ThreadColorMap
    \/ ThreadFinally

RenderSpec == GuiInit /\ [][RenderNext]_vars

(***************************************************************************)
(* The calculating flag followed through render requests and failures      *)
(***************************************************************************)
\* _render_mandelbrot raising after self.calculating = True: the status
\* update, the progress update or Thread.start() fails, and no thread runs
RenderRaises ==
    /\ ~calculating
    /\ calculating' = TRUE
    /\ th_pc' = "unstarted"
    /\ NoZoomIn
    /\ UNCHANGED <<image_width, image_height, view_bounds, zoom_history,
                   selection_active, selection_start, selection_end>>
    /\ UNCHANGED <<max_iterations, current_palette, th_kind, th_preview, th_args,
                   th_color, th_views, th_grid>>
    /\ UNCHANGED ThreadOthers

\* mandelbrot_array, iterations_to_rgb_array or an update raises in the
\* thread: except logs, finally: self.calculating = False
ThreadRaises ==
    /\ th_pc \in {"args", "color_args"}
    /\ calculating' = FALSE
    /\ th_pc' = "idle"
    /\ UNCHANGED <<max_iterations, current_palette, th_kind, th_preview, th_args,
                   th_color, th_views, th_grid>>
    /\ UNCHANGED <<image_width, image_height, view_bounds, zoom_history,
                   selection_active, selection_start, selection_end,
                   last_op, pre_bounds, evicted>>
    /\ UNCHANGED ThreadOthers

\* a step of the calculation thread that does not raise
ThreadStep ==
    \/ ThreadStart
    \/ ThreadReadArg
    \/ ThreadEvaluate
    \/ ThreadReadColorArg
    \/ ThreadColorMap
    \/ ThreadFinally

FlagNext ==
    \/ Render
    \/ RenderRaises
    \/ RenderZoomOut
    \/ OnWindowResize
    \/ ThreadStart
    \/ ThreadReadArg
    \/ ThreadEvaluate
    \/ ThreadReadColorArg
    \/ ThreadColorMap
    \/ ThreadRaises
    \/ ThreadFinally

\* a started thread is scheduled until it ends; the callbacks run when the
\* user acts, or never
FlagSpec == GuiInit /\ [][FlagNext]_vars /\ WF_vars(ThreadStep)

(***************************************************************************)
(* Properties                                                              *)
(***************************************************************************)
\* x_max > x_min and y_max > y_min
HasExtent(vb) == FLess(vb.x_min, vb.x_max) /\ FLess(vb.y_min, vb.y_max)

\* the grid of a call: each cell the escape count of its own point
SerialGrid(a) ==
    [p \in (0..(a.height - 1)) \X (0..(a.width - 1)) |->
        _mandelbrot_iterations_fast(KernelPoint(a, p[1], p[2]), a.max_iter)]

\* C1: a call of mandelbrot_array that names its mode (use_parallel False or
\* True) returns a grid, and that grid is the one grid of its region and
\* max_iter, whichever the mode.
C1_ParallelDeterminism ==
    (AsksForMode /\ k_pc \in {"raised", "returned"}) =>
        (k_outcome = "grid" /\ k_result = SerialGrid(k_args))

\* C2: with max_iter >= 1, every cell of the returned grid lies in
\* 1 .. max_iter.
C2_CellsInRange ==
    (k_pc = "returned" /\ k_args.max_iter >= 1) =>
        \A p \in DOMAIN k_result : k_result[p] \in 1..k_args.max_iter

C2_Witness ==
    /\ k_pc = "returned"
    /\ k_args.max_iter >= 3
    /\ \E p \in DOMAIN k_result : k_result[p] = 1
    /\ \E p \in DOMAIN k_result : k_result[p] = k_args.max_iter

\* z_k of the recurrence z_0 = 0, z_{k+1} = z_k^2 + c, as <<re, im>>
RECURSIVE OrbitAt(_, _)
OrbitAt(c, k) ==
    IF k = 0 THEN <<FromInt(0), FromInt(0)>>
    ELSE LET z == OrbitAt(c, k - 1)
         IN  <<FAdd(FSub(FMul(z[1], z[1]), FMul(z[2], z[2])), c.real),
               FAdd(FMul(FMul(FromInt(2), z[1]), z[2]), c.imag)>>

\* |z| > 2
Exceeds2(z) == FLess(FromInt(4), FAdd(FMul(z[1], z[1]), FMul(z[2], z[2])))

\* C3: mandelbrot_iterations returns r in 0 .. max_iter such that the test
\* |z_{i-1}| > 2 made at step i fails at the steps 1 .. r and, when
\* r < max_iter, succeeds at step r + 1: r = i - 1 for the first step i at
\* which the test succeeds, and r = max_iter when it succeeds at none.
C3_EscapeCount ==
    s_pc = "done" =>
        /\ s_ret \in 0..s_max_iter
        /\ \A j \in 1..s_ret : ~Exceeds2(OrbitAt(s_c, j - 1))
        /\ s_ret < s_max_iter => Exceeds2(OrbitAt(s_c, s_ret))

C3_Witness == s_pc = "done" /\ s_ret > 1 /\ s_ret < s_max_iter

\* C4: a back that immediately follows a zoom-in makes the region the
\* zoom-in started from the current view region again.
C4_BackRestoresPreZoom ==
    [][(last_op = "zoom_in" /\ last_op' = "back") =>
          BoundsOf(view_bounds') = pre_bounds]_vars

\* C5: after a zoom-in, the newest history entry is the region that was
\* current just before it.
C5_PushBeforeCommit ==
    last_op = "zoom_in" =>
        /\ zoom_history # <<>>
        /\ zoom_history[Len(zoom_history)] = pre_bounds

C5_Witness ==
    /\ last_op = "zoom_in"
    /\ Len(zoom_history) >= 2
    /\ BoundsOf(view_bounds) # pre_bounds

\* a release that finds a complete selection: the zoom-in step
ZoomInStep == selection_active /\ selection_end # None /\ ~selection_active'

\* C6: the history never holds more than max_history entries, and a push
\* onto a full history drops the oldest entry and keeps the others in order.
C6_HistoryBound ==
    [][/\ Len(zoom_history') <= max_history
       /\ (/\ ZoomInStep
           /\ Len(zoom_history) = max_history
           /\ zoom_history[Len(zoom_history)] # BoundsOf(view_bounds))
          => zoom_history' = Append(Tail(zoom_history), BoundsOf(view_bounds))]_vars

C6_Witness == evicted /\ Len(zoom_history) = max_history

\* C7: a history that holds an entry is never emptied, and a back issued
\* with at most one entry changes neither the history nor the view region.
C7_BackKeepsFirstEntry ==
    [][/\ Len(zoom_history) >= 1 => Len(zoom_history') >= 1
       /\ (last_op' = "back" /\ Len(zoom_history) <= 1)
          => (zoom_history' = zoom_history /\ view_bounds' = view_bounds)]_vars

C7_Witness ==
    /\ last_op = "back"
    /\ Len(zoom_history) = 1
    /\ BoundsOf(view_bounds) # zoom_history[1]

\* C8: each cell of the image iterations_to_rgb_array returns is what
\* iterations_to_rgb returns for that cell's count; with an unknown palette
\* both raise ValueError.
C8_ArrayMatchesScalar ==
    /\ c_pc = "returned" =>
          \A p \in DOMAIN c_rgb_image :
              LET one == iterations_to_rgb(c_iterations.cells[p], c_max_iter, c_palette)
              IN  one.tag = "rgb" /\ c_rgb_image[p] = one.rgb
    /\ c_pc = "ValueError" =>
          \A p \in DOMAIN c_iterations.cells :
              iterations_to_rgb(c_iterations.cells[p], c_max_iter, c_palette)
                  = ValueError(c_palette)

C8_Witness ==
    /\ c_pc = "returned"
    /\ \E p \in DOMAIN c_rgb_image : c_rgb_image[p] # <<0, 0, 0>>
    /\ \E p \in DOMAIN c_rgb_image : c_iterations.cells[p] = c_max_iter

C10_ZoomOrderIndependent ==
    t_pc = "done" =>
        /\ t_zoom_ab = t_zoom_ba
        /\ t_zoom_ab.width = t_vb.width
        /\ t_zoom_ab.height = t_vb.height

C10_Witness ==
    /\ t_pc = "done"
    /\ HasExtent(t_vb)
    /\ t_a[1] > t_b[1] /\ t_a[2] < t_b[2]
    /\ HasExtent(t_zoom_ab)

\* C11: for every palette of the fixed set and every max_iter, a count
\* >= max_iter is pure black, in the image iterations_to_rgb_array returns
\* and from iterations_to_rgb.
C11_MembersAreBlack ==
    (c_pc = "returned" /\ c_palette \in _PALETTES) =>
        \A p \in DOMAIN c_rgb_image :
            c_iterations.cells[p] >= c_max_iter =>
                /\ c_rgb_image[p] = <<0, 0, 0>>
                /\ iterations_to_rgb(c_iterations.cells[p], c_max_iter, c_palette)
                       = Rgb(<<0, 0, 0>>)

C11_Witness ==
    /\ c_pc = "returned"
    /\ c_max_iter >= 2
    /\ \E p \in DOMAIN c_rgb_image : c_iterations.cells[p] = c_max_iter
    /\ \E p \in DOMAIN c_rgb_image : c_iterations.cells[p] = c_max_iter + 1
    /\ \E p \in DOMAIN c_rgb_image : c_rgb_image[p] # <<0, 0, 0>>

\* the names a ValueError lists
Listed(e) == { e.available[j] : j \in 1..Len(e.available) }

\* C12: with a palette name outside the fixed set, iterations_to_rgb_array
\* and iterations_to_rgb raise ValueError naming the requested palette and
\* listing the valid names; the array form raises before it allocates the
\* image or visits a cell, and returns no image.
C12_UnknownPaletteRaises ==
    (c_palette \notin _PALETTES /\ c_pc # "call") =>
        /\ c_pc = "ValueError"
        /\ c_raised # None
        /\ c_raised.tag = "ValueError"
        /\ c_raised.palette = c_palette
        /\ Listed(c_raised) = _PALETTES
        /\ c_rgb_image = None /\ c_row = 0 /\ c_col = 0
        /\ \A p \in DOMAIN c_iterations.cells :
              iterations_to_rgb(c_iterations.cells[p], c_max_iter, c_palette) = c_raised

C12_Witness ==
    /\ c_pc = "ValueError"
    /\ c_palette = "plasma"
    /\ c_max_iter >= 2
    /\ \E p \in DOMAIN c_iterations.cells : c_iterations.cells[p] < c_max_iter

\* C13: a call of mandelbrot_array on a region without extent
\* (x_max <= x_min or y_max <= y_min) raises before any pixel is evaluated
\* and returns no grid.
C13_DegenerateRegionFails ==
    (~HasExtent(k_args) /\ k_pc # "call") =>
        /\ k_pc = "raised"
        /\ k_result = None

\* C14: in every reachable state of the GUI the current view region has
\* x_max > x_min, y_max > y_min, width > 0 and height > 0.
C14_RegionInvariant ==
    /\ HasExtent(view_bounds)
    /\ view_bounds.width > 0
    /\ view_bounds.height > 0

\* |a - b| <= 2^-51 * (|lo| + |hi|): a is b up to the rounding of one
\* subtraction and one addition of doubles between lo and hi
WithinRounding(a, b, lo, hi) ==
    ~FLess(FMul(TwoTo(-51), FAdd(FAbs(lo), FAbs(hi))), FAbs(FSub(a, b)))

\* adjacent pixels are farther apart than that in both axes
Resolved(vb) ==
    /\ FLess(FMul(TwoTo(-50), FAdd(FAbs(vb.x_min), FAbs(vb.x_max))),
             FDiv(complex_width(vb), FromInt(vb.width - 1)))
    /\ FLess(FMul(TwoTo(-50), FAdd(FAbs(vb.y_min), FAbs(vb.y_max))),
             FDiv(complex_height(vb), FromInt(vb.height - 1)))

\* the pixels to the right of p in its row, and below p in its column
RightOf(vb, p) == { <<x, p[2]>> : x \in (p[1] + 1)..(vb.width - 1) }

Below(vb, p) == { <<p[1], y>> : y \in (p[2] + 1)..(vb.height - 1) }

\* C17 as stated: with width, height > 1 pixel (0, 0) maps to (x_min, y_max)
\* and pixel (width-1, height-1) to (x_max, y_min); the real part increases
\* with the column and the imaginary part decreases as the row increases.
C17_YAxisInversion ==
    (t_pc # "start" /\ HasExtent(t_vb) /\ t_vb.width > 1 /\ t_vb.height > 1) =>
        /\ VB_pixel_to_complex(t_vb, 0, 0) = Complex(t_vb.x_min, t_vb.y_max)
        /\ VB_pixel_to_complex(t_vb, t_vb.width - 1, t_vb.height - 1)
               = Complex(t_vb.x_max, t_vb.y_min)
        /\ \A q \in RightOf(t_vb, t_a) :
               FLess(t_complex.real, VB_pixel_to_complex(t_vb, q[1], q[2]).real)
        /\ \A q \in Below(t_vb, t_a) :
               FLess(VB_pixel_to_complex(t_vb, q[1], q[2]).imag, t_complex.imag)

\* C17 amended: pixel (0, 0) maps to (x_min, y_max) exactly and pixel
\* (width-1, height-1) to (x_max, y_min) up to rounding; the real part never
\* decreases with the column and the imaginary part never increases with the
\* row, and both change from each pixel to the next where adjacent pixels
\* are farther apart than the rounding.
C17_YAxisInversionRounded ==
    (t_pc # "start" /\ HasExtent(t_vb) /\ t_vb.width > 1 /\ t_vb.height > 1) =>
        LET last == VB_pixel_to_complex(t_vb, t_vb.width - 1, t_vb.height - 1)
        IN  /\ VB_pixel_to_complex(t_vb, 0, 0) = Complex(t_vb.x_min, t_vb.y_max)
            /\ WithinRounding(last.real, t_vb.x_max, t_vb.x_min, t_vb.x_max)
            /\ WithinRounding(last.imag, t_vb.y_min, t_vb.y_min, t_vb.y_max)
            /\ \A q \in RightOf(t_vb, t_a) :
                   LET moved == VB_pixel_to_complex(t_vb, q[1], q[2]).real
                   IN  IF Resolved(t_vb) THEN FLess(t_complex.real, moved)
                       ELSE ~FLess(moved, t_complex.real)
            /\ \A q \in Below(t_vb, t_a) :
                   LET moved == VB_pixel_to_complex(t_vb, q[1], q[2]).imag
                   IN  IF Resolved(t_vb) THEN FLess(moved, t_complex.imag)
                       ELSE ~FLess(t_complex.imag, moved)

\* an inner pixel of a region whose last pixel does not map to x_max
C17_Witness ==
    /\ t_pc = "complex"
    /\ t_vb.width > 2 /\ t_vb.height > 2
    /\ HasExtent(t_vb) /\ Resolved(t_vb)
    /\ t_a = <<1, 1>>
    /\ VB_pixel_to_complex(t_vb, t_vb.width - 1, t_vb.height - 1).real # t_vb.x_max

C19_DynamicNormalization ==
    (/\ r_pc = "done"
     /\ r_iterations = sample_iter
     /\ r_palette \in _PALETTES
     /\ r_max_iter_a = 50 /\ r_max_iter_b = 500) =>
        /\ r_rgb_a.tag = "rgb" /\ r_rgb_b.tag = "rgb"
        /\ r_rgb_a # r_rgb_b

C19_Witness ==
    /\ r_pc = "done"
    /\ r_iterations = sample_iter
    /\ r_palette = "grayscale"
    /\ r_max_iter_a = 50 /\ r_max_iter_b = 500
    /\ r_rgb_a = Rgb(<<127, 127, 127>>)
    /\ r_rgb_b = Rgb(<<12, 12, 12>>)

\* the dimensions and bounds the grid was evaluated with are those of one
\* view that was current while the thread read them
GridArgsOfOneView == th_grid # None => SubSeq(th_grid, 1, 6) \in th_views

\* the max_iter read for iterations_to_rgb_array is the grid's
ColorMaxIterOfGrid ==
    (th_grid # None /\ Len(th_color) >= 1) => th_color[1] = th_grid[7]

\* C15: in one background render the bounds and the dimensions passed to
\* mandelbrot_array are those of one view region that was current while the
\* thread read them, and the max_iter passed to iterations_to_rgb_array is
\* the max_iter the grid was evaluated with, whatever callbacks run in
\* between.
C15_ConsistentSnapshot == GridArgsOfOneView /\ ColorMaxIterOfGrid


\* x_min <= 0 <= x_max and y_min <= 0 <= y_max
ContainsOrigin(a) ==
    /\ ~FLess(FromInt(0), a.x_min) /\ ~FLess(a.x_max, FromInt(0))
    /\ ~FLess(FromInt(0), a.y_min) /\ ~FLess(a.y_max, FromInt(0))

\* the squared distance from the origin of the point evaluated for a pixel
SquaredDistance(a, p) ==
    LET c == KernelPoint(a, p[1], p[2])
    IN  FAdd(FMul(c.real, c.real), FMul(c.imag, c.imag))

\* the pixels <<row, col>> whose point is nearest the origin
NearestOrigin(a) ==
    LET cells == (0..(a.height - 1)) \X (0..(a.width - 1))
    IN  { p \in cells :
            \A q \in cells : ~FLess(SquaredDistance(a, q), SquaredDistance(a, p)) }

\* C16 as stated: for max_iter >= 1 and a region containing 0+0i, the
\* returned grid holds max_iter in the pixel whose point is nearest the
\* origin.
C16_NearestOriginIsMember ==
    (k_pc = "returned" /\ k_args.max_iter >= 1 /\ ContainsOrigin(k_args)) =>
        \E p \in NearestOrigin(k_args) : k_result[p] = k_args.max_iter

\* C16 amended: for max_iter >= 1 the returned grid holds max_iter in every
\* pixel whose point x_min + col * x_step, y_max - row * y_step is the
\* origin.
C16_OriginPixelIsMember ==
    (k_pc = "returned" /\ k_args.max_iter >= 1) =>
        \A p \in DOMAIN k_result :
            KernelPoint(k_args, p[1], p[2]) = CZero => k_result[p] = k_args.max_iter

C16_Witness ==
    /\ k_pc = "returned"
    /\ k_args.max_iter >= 3
    /\ ContainsOrigin(k_args)
    /\ \E p \in DOMAIN k_result :
           /\ KernelPoint(k_args, p[1], p[2]) = CZero
           /\ k_result[p] = k_args.max_iter
    /\ \E p \in DOMAIN k_result : k_result[p] < k_args.max_iter


\* a step of _zoom_out
ZoomOutStep == last_op' = "zoom_out" /\ pre_bounds' = BoundsOf(view_bounds)

ZoomToPointStep ==
    /\ last_op' = "zoom_in"
    /\ pre_bounds' = BoundsOf(view_bounds)
    /\ selection_active /\ selection_start # None /\ selection_end # None
    /\ ~IsAreaSelection(selection_start, selection_end)

\* click_point of _on_mouse_release
ClickPoint == VB_pixel_to_complex(view_bounds, selection_start[1], selection_start[2])

\* C21 as stated: zoom_to_point(point, factor) replaces the region by one
\* whose center is exactly point and whose extents are 1/factor (here 1/4)
\* of the current extents.
C21_ZoomToPointCenters ==
    [][ZoomToPointStep =>
          /\ center(view_bounds') = ClickPoint
          /\ complex_width(view_bounds') = FDiv(complex_width(view_bounds), FromInt(4))
          /\ complex_height(view_bounds') = FDiv(complex_height(view_bounds), FromInt(4))]_vars

\* C21 amended: the center is point and the extents are 1/4 of the current
\* extents up to the rounding of the new bounds.
C21_ZoomToPointCentersRounded ==
    [][ZoomToPointStep =>
          LET old == view_bounds
              new == view_bounds'
          IN  /\ WithinRounding(center(new).real, ClickPoint.real, new.x_min, new.x_max)
              /\ WithinRounding(center(new).imag, ClickPoint.imag, new.y_min, new.y_max)
              /\ WithinRounding(complex_width(new), FDiv(complex_width(old), FromInt(4)),
                                new.x_min, new.x_max)
              /\ WithinRounding(complex_height(new), FDiv(complex_height(old), FromInt(4)),
                                new.y_min, new.y_max)]_vars

\* a click has zoomed to a view whose width is not a quarter of the width
\* before
C21_Witness ==
    /\ last_op = "zoom_in"
    /\ zoom_history # <<>>
    /\ complex_width(view_bounds) # FDiv(FSub(pre_bounds[2], pre_bounds[1]), FromInt(4))

\* an integer a np.uint8 holds
IsU8(v) == v \in 0..255

\* C22: for every palette of the fixed set, max_iter >= 1 and every count
\* 0 <= iterations <= max_iter, each channel iterations_to_rgb returns is an
\* integer in [0, 255], and the image cell stored from it holds the same
\* three values: the uint8 store did not wrap.
C22_ChannelsFitUint8 ==
    (c_pc = "returned" /\ c_palette \in _PALETTES /\ c_max_iter >= 1) =>
        \A p \in DOMAIN c_rgb_image :
            c_iterations.cells[p] <= c_max_iter =>
                LET one == iterations_to_rgb(c_iterations.cells[p], c_max_iter, c_palette)
                    direct == _apply_palette_direct(c_iterations.cells[p], c_max_iter,
                                                    c_palette)
                IN  /\ one.tag = "rgb"
                    /\ \A j \in 1..3 : IsU8(one.rgb[j]) /\ IsU8(direct[j])
                    /\ c_rgb_image[p] = direct

\* an image has been returned whose cells hold a 255, a channel strictly
\* between 0 and 255 and the black of a count equal to max_iter
C22_Witness ==
    /\ c_pc = "returned"
    /\ c_palette \in _PALETTES
    /\ c_max_iter >= 2
    /\ \E p \in DOMAIN c_rgb_image :
          /\ c_iterations.cells[p] < c_max_iter
          /\ \E j \in 1..3 : c_rgb_image[p][j] = 255
    /\ \E p \in DOMAIN c_rgb_image :
          /\ c_iterations.cells[p] < c_max_iter
          /\ \E j \in 1..3 : c_rgb_image[p][j] \in 1..254
    /\ \E p \in DOMAIN c_rgb_image : c_iterations.cells[p] = c_max_iter

\* pixel_to_complex(col, row, width, height, region) on the arguments of a
\* call of mandelbrot_array
TransformPoint(a, row, col) ==
    pixel_to_complex(col, row, a.width, a.height, a.x_min, a.x_max, a.y_min, a.y_max)

\* C23: for every region, width, height and pixel (row, col), the point the
\* grid kernel evaluates for the pixel equals pixel_to_complex(col, row,
\* width, height, region), and both put row 0 at y_max.
C23_KernelPointIsPixelToComplex ==
    (k_pc = "kernel" /\ k_row < k_args.height) =>
        /\ KernelPoint(k_args, k_row, k_col) = TransformPoint(k_args, k_row, k_col)
        /\ KernelPoint(k_args, 0, k_col).imag = k_args.y_max
        /\ TransformPoint(k_args, 0, k_col).imag = k_args.y_max

\* the number of times the loop of _mandelbrot_iterations_fast runs
\* z = z * z + c from iteration i on
RECURSIVE fast_loop_steps(_, _, _, _)
fast_loop_steps(c, max_iter, i, z) ==
    IF i > max_iter THEN 0
    ELSE IF Escaped(z) THEN 0
    ELSE 1 + fast_loop_steps(c, max_iter, i + 1, CSquarePlus(z, c))

\* the pixels the loops of _mandelbrot_kernel have passed
Passed(p) == p[1] < k_row \/ (p[1] = k_row /\ p[2] < k_col)

\* C24: a call of mandelbrot_array terminates; a call that binds its
\* arguments returns, and the grid it returns has shape (height, width) and
\* holds in every cell (row, col) the scalar kernel's result for the point
\* (x_min + col * (x_max - x_min) / width, y_max - row * (y_max - y_min) /
\* height), reached in at most max_iter recurrence steps; a cell the loops
\* have passed is never written again.
C24_ArrayTerminatesComplete ==
    /\ <>(k_pc \in {"returned", "raised"})
    /\ [](k_pc = "raised" => ~BindsOk(k_npos, k_kw))
    /\ [](k_pc = "returned" =>
            /\ DOMAIN k_result = (0..(k_args.height - 1)) \X (0..(k_args.width - 1))
            /\ \A p \in DOMAIN k_result :
                  LET c == Complex(
                          FAdd(k_args.x_min,
                               FMul(FromInt(p[2]),
                                    FDiv(FSub(k_args.x_max, k_args.x_min),
                                         FromInt(k_args.width)))),
                          FSub(k_args.y_max,
                               FMul(FromInt(p[1]),
                                    FDiv(FSub(k_args.y_max, k_args.y_min),
                                         FromInt(k_args.height)))))
                  IN  /\ k_result[p] = _mandelbrot_iterations_fast(c, k_args.max_iter)
                      /\ fast_loop_steps(c, k_args.max_iter, 1, CZero) <= k_args.max_iter)
    /\ [][k_pc = "kernel" =>
            \A p \in DOMAIN k_result : Passed(p) => k_result'[p] = k_result[p]]_vars

\* a 3 x 3 grid has been returned with cells that escaped at once, cells
\* that escaped later and cells that reached the cap
C24_Witness ==
    /\ k_pc = "returned"
    /\ k_args.width = 3 /\ k_args.height = 3
    /\ k_args.max_iter >= 3
    /\ \E p \in DOMAIN k_result : k_result[p] = 1
    /\ \E p \in DOMAIN k_result : k_result[p] \in 2..(k_args.max_iter - 1)
    /\ \E p \in DOMAIN k_result : k_result[p] = k_args.max_iter
    /\ k_result[<<2, 2>>] # k_result[<<0, 0>>]

\* mandelbrot_iterations(c, max_iter): the loop of mandelbrot_iterations is
\* that of _mandelbrot_iterations_fast with logging
mandelbrot_iterations(c, max_iter) == fast_loop(c, max_iter, 1, CZero)

\* C25: for a fixed point c the escape count is non-decreasing in the cap:
\* the count a run under max_iter returns is at least the count under every
\* smaller cap and at most the count under every larger one.
C25_CapMonotone ==
    s_pc = "done" =>
        /\ \A m1 \in 0..s_max_iter : mandelbrot_iterations(s_c, m1) <= s_ret
        /\ \A m2 \in s_max_iter..MaxIter : s_ret <= mandelbrot_iterations(s_c, m2)

\* a run has returned its cap for a point that a smaller cap counts lower
\* and a larger cap counts higher
C25_Witness ==
    /\ s_pc = "done"
    /\ s_max_iter >= 2
    /\ s_ret = s_max_iter
    /\ \E m1 \in 1..(s_max_iter - 1) : mandelbrot_iterations(s_c, m1) < s_ret
    /\ \E m2 \in (s_max_iter + 1)..MaxIter :
          /\ mandelbrot_iterations(s_c, m2) > s_ret
          /\ mandelbrot_iterations(s_c, m2) < m2

\* the selection state _on_mouse_release leaves
SelectionCleared ==
    /\ selection_active' = FALSE
    /\ selection_start' = None
    /\ selection_end' = None

\* C26: a release that follows a press inside the image performs exactly
\* one zoom-in, to the selection when the drag spans more than 20 pixels in
\* both axes and to the press point otherwise (a click or a small drag),
\* and clears the selection state.
C26_ReleaseZoomsOnce ==
    [][(selection_active /\ selection_start # None /\ OnMouseRelease) =>
          /\ SelectionCleared
          /\ last_op' = "zoom_in"
          /\ zoom_history' = _save_to_history(zoom_history, view_bounds)
          /\ selection_end # None
          /\ view_bounds' = ReleaseView(view_bounds, selection_start, selection_end,
                                        image_width, image_height)]_vars

\* a callback that asks for a render: the Render button, zoom out, a resize
RenderRequest == Render \/ RenderRaises \/ RenderZoomOut \/ OnWindowResize

\* the calculation thread: where it is and what it has read
thread_vars == <<th_pc, th_kind, th_preview, th_args, th_color, th_grid>>

\* a thread is running its body
ThreadRunning == th_pc \in {"args", "color_args", "texture"}

\* C27: at most one background calculation is in progress at any time: a
\* running thread holds the calculating flag, a render request (full render
\* or resize preview) issued while the flag is set leaves the flag and the
\* thread as they are, and a running thread is never started over.
C27_OneCalculation ==
    /\ [](ThreadRunning => calculating)
    /\ [][(calculating /\ RenderRequest) =>
             (calculating' /\ UNCHANGED thread_vars)]_vars
    /\ [][ThreadRunning => ~(th_pc' = "args" /\ Len(th_args') < Len(th_args))]_vars

\* a full render has read the width of the image, and a resize issued since
\* then has changed the image without starting its preview
C27_Witness ==
    /\ calculating
    /\ th_pc = "args" /\ th_kind = "full"
    /\ Len(th_args) >= 1
    /\ th_args[1] # image_width

\* C28: every render request that sets the calculating flag is eventually
\* followed by the flag being cleared, also when a step of the request or
\* of the calculation fails.
C28_FlagEventuallyCleared == calculating ~> ~calculating

\* C29: whenever no calculation is in progress, the image on display was
\* computed from the current view region.
C29_DisplayedIsCurrent ==
    (~calculating /\ th_pc = "idle" /\ th_grid # None) =>
        <<th_grid[1], th_grid[2], th_grid[3], th_grid[4], th_grid[5], th_grid[6]>>
            = CurrentView

\* C30: the zoom history never holds two equal adjacent entries, and a push
\* of bounds equal to the newest entry leaves the history unchanged.
C30_NoAdjacentDuplicates ==
    /\ [](\A j \in 1..(Len(zoom_history) - 1) : zoom_history[j] # zoom_history[j + 1])
    /\ [][(/\ ZoomInStep
           /\ zoom_history # <<>>
           /\ zoom_history[Len(zoom_history)] = BoundsOf(view_bounds))
          => zoom_history' = zoom_history]_vars

\* a zoom-in has pushed bounds the history already held further down: equal
\* entries, none of them adjacent
C30_Witness ==
    /\ last_op = "zoom_in"
    /\ Len(zoom_history) >= 3
    /\ zoom_history[Len(zoom_history)] = pre_bounds
    /\ \E j \in 1..(Len(zoom_history) - 2) : zoom_history[j] = pre_bounds

=============================================================================
